---------------------------- MODULE Spec2Model ----------------------------
(***************************************************************************)
(* GoalLine API: the match-derived analytics of app/routes/analytics.py    *)
(* (league table, top scorers, streaks) over the match and player          *)
(* collections, and the score extraction they share.                       *)
(***************************************************************************)
EXTENDS Integers, Sequences, FiniteSets, TLC

VARIABLES
    matches,    \* the "matches" collection, in natural (insertion) order
    players,    \* the "players" collection: _id -> document
    request,    \* the query parameters of the request being answered
    response,   \* its response
    reads,      \* the collection reads the view performed for it, in order
    score,      \* the argument of a parse_score call
    parsed,     \* the outcome of that call
    calls,      \* the requests served concurrently: worker -> call frame
    locals,     \* the local accumulators of these calls: slot -> name -> value
    streak,     \* a result sequence, a target and the longest_streak calls on them
    users,      \* the "users" collection: _id -> document
    notes,      \* the "match_notes" collection, in insertion order
    client,     \* the module global _client of db.py
    clients,    \* the MongoClient objects constructed so far
    gets        \* the get_client calls in progress: thread -> frame

vars == <<matches, players, request, response, reads, score, parsed, calls, locals, streak, users, notes, client, clients, gets>>

(***************************************************************************)
(* Python / BSON values as tagged records.  A str that the code takes      *)
(* apart is a sequence of one-character strings; identifiers (team,        *)
(* player, competition ids) stay TLA+ strings.                             *)
(***************************************************************************)
PyNone == [t |-> "none", v |-> 0]
PyInt(n) == [t |-> "int", v |-> n]
PyBool(b) == [t |-> "bool", v |-> b]
\* a non-negative float, held in tenths: PyFloat(25) is 2.5
PyFloat(tenths) == [t |-> "float", v |-> tenths]
PyStr(chars) == [t |-> "str", v |-> chars]
PyList(items) == [t |-> "list", v |-> items]
PyDict(f) == [t |-> "dict", v |-> f]

IsDict(x) == x.t = "dict"
IsStr(x) == x.t = "str"

\* dict.get(key, default)
DictGet(d, key, default) == IF key \in DOMAIN d.v THEN d.v[key] ELSE default

\* bool(x): Python truthiness
Truthy(x) ==
    CASE x.t = "none" -> FALSE
      [] x.t = "int" -> x.v # 0
      [] x.t = "bool" -> x.v
      [] x.t = "float" -> x.v # 0
      [] x.t = "str" -> Len(x.v) > 0
      [] x.t = "list" -> Len(x.v) > 0
      [] x.t = "dict" -> DOMAIN x.v # {}

\* x or y
PyOr(x, y) == IF Truthy(x) THEN x ELSE y

\* The outcome of a call: a returned value, or a raised exception.
Return(x) == [exc |-> "none", val |-> x]
Raise(e) == [exc |-> e, val |-> <<>>]
Raised(o) == o.exc # "none"

Digits == {"0", "1", "2", "3", "4", "5", "6", "7", "8", "9"}

DigitVal(c) ==
    CASE c = "0" -> 0 [] c = "1" -> 1 [] c = "2" -> 2 [] c = "3" -> 3
      [] c = "4" -> 4 [] c = "5" -> 5 [] c = "6" -> 6 [] c = "7" -> 7
      [] c = "8" -> 8 [] c = "9" -> 9

RECURSIVE DecimalVal(_)
DecimalVal(s) ==
    IF s = <<>> THEN 0
    ELSE 10 * DecimalVal(SubSeq(s, 1, Len(s) - 1)) + DigitVal(s[Len(s)])

\* str.strip() of blanks
RECURSIVE Strip(_)
Strip(s) ==
    IF s = <<>> THEN s
    ELSE IF Head(s) = " " THEN Strip(Tail(s))
    ELSE IF s[Len(s)] = " " THEN Strip(SubSeq(s, 1, Len(s) - 1))
    ELSE s

\* int(str): blanks stripped, an optional sign, then one or more digits.
IntOfStr(chars) ==
    LET s == Strip(chars)
        signed == s # <<>> /\ Head(s) \in {"+", "-"}
        body == IF signed THEN Tail(s) ELSE s
    IN  IF body # <<>> /\ \A i \in 1..Len(body) : body[i] \in Digits
        THEN Return(IF signed /\ Head(s) = "-" THEN 0 - DecimalVal(body)
                    ELSE DecimalVal(body))
        ELSE Raise("ValueError")

\* int(x)
PyIntOf(x) ==
    CASE x.t = "int" -> Return(x.v)
      [] x.t = "bool" -> Return(IF x.v THEN 1 ELSE 0)
      [] x.t = "float" -> Return(x.v \div 10)
      [] x.t = "str" -> IntOfStr(x.v)
      [] OTHER -> Raise("TypeError")

\* str.split(sep): the pieces between the separators
RECURSIVE Split(_, _)
Split(s, sep) ==
    IF \A i \in 1..Len(s) : s[i] # sep THEN <<s>>
    ELSE LET i == CHOOSE k \in 1..Len(s) :
                      s[k] = sep /\ \A j \in 1..(k - 1) : s[j] # sep
         IN  <<SubSeq(s, 1, i - 1)>> \o Split(SubSeq(s, i + 1, Len(s)), sep)

\* int(fulltime.get(side, 0) or 0)
SideGoals(fulltime, side) == PyIntOf(PyOr(DictGet(fulltime, side, PyInt(0)), PyInt(0)))

(***************************************************************************)
(* parse_score: a returned pair <<home, away>> or the exception that       *)
(* escapes the call.  Only the str branch is inside try/except.            *)
(***************************************************************************)
\* lines 190-200: the fulltime value to a pair
ParseFulltime(fulltime) ==
    IF IsDict(fulltime)
    THEN LET home == SideGoals(fulltime, "home")
             away == SideGoals(fulltime, "away")
         IN  IF Raised(home) THEN home
             ELSE IF Raised(away) THEN away
             ELSE Return(<<home.val, away.val>>)
    ELSE IF IsStr(fulltime)
    THEN LET parts == Split(fulltime.v, "-")
         IN  IF Len(parts) # 2 THEN Return(<<0, 0>>)
             ELSE LET home == IntOfStr(parts[1])
                      away == IntOfStr(parts[2])
                  IN  IF Raised(home) \/ Raised(away) THEN Return(<<0, 0>>)
                      ELSE Return(<<home.val, away.val>>)
    ELSE Return(<<0, 0>>)

\* a variant taking a mapping without a fulltime entry as the fulltime value
parse_score_whole(s) ==
    ParseFulltime(IF IsDict(s) THEN DictGet(s, "fulltime", s) ELSE s)

parse_score(s) ==
    ParseFulltime(IF IsDict(s) THEN DictGet(s, "fulltime", PyNone) ELSE s)

(***************************************************************************)
(* The score values parse_score is applied to: every shape a stored score  *)
(* field can take.                                                         *)
(***************************************************************************)
MaxScoreLen == 3

ScoreChars == {"0", "1", "2", "3", "-", "x", " "}

StrScores == {PyStr(s) : s \in UNION {[1..k -> ScoreChars] : k \in 0..MaxScoreLen}}

SideVals ==
    {PyNone, PyInt(0), PyInt(2), PyInt(3), PyStr(<<"1">>), PyStr(<<"x">>), PyStr(<<>>),
     PyBool(TRUE), PyFloat(25), PyList(<<>>), PyList(<<PyInt(1)>>)}

\* mappings with any of the keys home / away
SideDicts == {PyDict(f) : f \in UNION {[K -> SideVals] : K \in SUBSET {"home", "away"}}}

FulltimeVals ==
    SideDicts \cup {PyNone, PyInt(2), PyStr(<<"b", "a", "d">>), PyStr(<<"2", "-", "1">>)}

ScoreValues ==
    {PyNone, PyInt(2), PyList(<<>>)} \cup StrScores \cup SideDicts
        \cup {PyDict([k \in {"fulltime"} |-> x]) : x \in FulltimeVals}

Pending == [exc |-> "pending", val |-> <<>>]

Idle == [handler |-> "none", code |-> 0, json |-> <<>>]

\* no Authorization header (request.headers.get("Authorization", "")), no
\* JSON body (request.get_json(silent=True) or {})
NoToken == [sub |-> "null", role |-> "null", expired |-> FALSE, signed |-> FALSE]
NoHeader == [scheme |-> "none", token |-> NoToken]
NoBody == [valid |-> TRUE, id |-> "null", fields |-> "{}"]

NoArgs ==
    [competition |-> "null", season |-> "null", type |-> "null", limit |-> 20,
     team_a |-> "null", team_b |-> "null", limit_arg |-> PyNone,
     route |-> "none", authorization |-> NoHeader, match_id |-> "null",
     event_id |-> "null", note_id |-> "null", body |-> NoBody]

\* The workers that serve requests side by side, each call with a frame of
\* its own: where it stands, its view and arguments, the documents its
\* find returned and it has yet to scan, and its response.
Workers == {"w1", "w2"}

NoCall == [pc |-> "idle", view |-> "none", args |-> NoArgs, found |-> <<>>,
           response |-> Idle]

\* db.py line 11 (_client = None); the threads that serve requests, and a
\* thread outside get_client
NoClient == "null"
Threads == {"t1", "t2", "t3"}
NoGet == [pc |-> "out", new |-> NoClient, got |-> NoClient]
NoGets == [t \in Threads |-> NoGet]

NoCalls == [w \in Workers |-> NoCall]

NoLocals == [w \in Workers |-> <<>>]

\* no call of longest_streak yet, on the empty sequence
NoStreak == [sequence |-> <<>>, target |-> "W", longest |-> <<>>, reversed |-> <<>>]

(***************************************************************************)
(* parse_score as a pure function: one call on one score value.            *)
(***************************************************************************)
InitScore ==
    /\ matches = <<>>
    /\ players = <<>>
    /\ users = <<>>
    /\ notes = <<>>
    /\ client = NoClient
    /\ clients = {}
    /\ gets = NoGets
    /\ request = NoArgs
    /\ response = Idle
    /\ reads = <<>>
    /\ score \in ScoreValues
    /\ parsed = Pending
    /\ calls = NoCalls
    /\ locals = NoLocals
    /\ streak = NoStreak

CallParseScore ==
    /\ parsed = Pending
    /\ parsed' = parse_score(score)
    /\ UNCHANGED <<matches, players, request, response, reads, score, calls, locals, streak, users, notes, client, clients, gets>>

NextScore == CallParseScore

SpecScore == InitScore /\ [][NextScore]_vars


(***************************************************************************)
(* The collections.  A match document is a record; Null stands for None    *)
(* and for an absent key among identifiers and request parameters          *)
(* (dict.get and request.args.get answer None for both).                   *)
(***************************************************************************)
Null == "null"

\* the score key absent from the document
NoScore == [t |-> "absent", v |-> 0]

TeamIds == {"A", "B", "C"}

Doc(comp, season, date, home, away, sc) ==
    [competition_id |-> comp, season_id |-> season, date |-> date,
     home_team_id |-> home, away_team_id |-> away, score |-> sc, events |-> <<>>]

\* the one-character string of a digit
DigitStr(n) == CHOOSE c \in Digits : DigitVal(c) = n

\* the score shapes: "h-a", {"home": h, "away": a}, {"fulltime": {...}}
SidesDict(h, a) ==
    PyDict([k \in {"home", "away"} |-> IF k = "home" THEN PyInt(h) ELSE PyInt(a)])
Dash(h, a) == PyStr(<<DigitStr(h), "-", DigitStr(a)>>)
Full(h, a) == PyDict([k \in {"fulltime"} |-> SidesDict(h, a)])
BadSide == PyDict([k \in {"fulltime"} |->
              PyDict([k2 \in {"home", "away"} |->
                  IF k2 = "home" THEN PyInt(3) ELSE PyStr(<<"x">>)])])

\* The match documents a dataset may hold: results between the teams in
\* both orientations and both score shapes, a match of a team against
\* itself, documents without a team id, without a score, with a score that
\* does not parse, and documents of another competition or season.
ResultDocs ==
    { Doc("c1", "s1", 1, "A", "B", Dash(2, 0)),
      Doc("c1", "s1", 2, "A", "B", Full(1, 1)),
      Doc("c1", "s1", 3, "A", "B", Dash(0, 3)),
      Doc("c1", "s1", 1, "A", "B", Full(3, 1)),
      Doc("c1", "s1", 2, "B", "A", Dash(2, 2)),
      Doc("c1", "s1", 3, "C", "B", SidesDict(2, 1)),
      Doc("c1", "s1", 1, "C", "A", NoScore),
      Doc("c1", "s1", 1, "A", "A", Dash(0, 0)),
      Doc("c1", "s1", 2, "B", "B", Dash(1, 0)),
      Doc("c1", "s1", 1, Null, "B", Dash(2, 0)),
      Doc("c1", "s1", 2, "A", Null, BadSide),
      Doc("c1", "s1", 3, "B", "C", BadSide),
      Doc("c2", "s1", 3, "A", "B", Dash(2, 0)),
      Doc("c1", "s2", 1, "B", "A", Dash(2, 0)) }

\* those of them the streaks are computed over
StreakDocs ==
    { Doc("c1", "s1", 1, "A", "B", Dash(2, 0)),
      Doc("c1", "s1", 2, "A", "B", Full(1, 1)),
      Doc("c1", "s1", 3, "A", "B", Dash(0, 3)),
      Doc("c1", "s1", 2, "B", "A", Dash(2, 2)),
      Doc("c1", "s1", 1, "C", "A", NoScore),
      Doc("c1", "s1", 1, "A", "A", Dash(0, 0)),
      Doc("c1", "s1", 1, Null, "B", Dash(2, 0)),
      Doc("c1", "s1", 3, "B", "C", BadSide),
      Doc("c2", "s1", 3, "A", "B", Dash(2, 0)) }

MaxMatches == 3

\* match.get("score", {})
ScoreOf(match) == IF match.score = NoScore THEN PyDict(<<>>) ELSE match.score

\* collection.find(query): the documents matching every key of the query,
\* in natural order
Matching(doc, query) == \A k \in DOMAIN query : doc[k] = query[k]
Find(coll, query) == SelectSeq(coll, LAMBDA doc : Matching(doc, query))

\* the optional scope of top_scorers and streaks: a key per truthy parameter
Present(param) == param # Null /\ param # ""
ScopeQuery(competition, season) ==
    [k \in {x \in {"competition_id", "season_id"} :
               Present(IF x = "competition_id" THEN competition ELSE season)}
        |-> IF k = "competition_id" THEN competition ELSE season]

MatchesRead == [coll |-> "matches", keys |-> <<>>]

(***************************************************************************)
(* list.sort(key=...): a stable sort, ascending in the key (a tuple of     *)
(* integers, compared lexicographically).                                  *)
(***************************************************************************)
RECURSIVE KeyLess(_, _)
KeyLess(k1, k2) ==
    IF k1 = <<>> THEN FALSE
    ELSE IF k1[1] # k2[1] THEN k1[1] < k2[1]
    ELSE KeyLess(Tail(k1), Tail(k2))

\* x goes behind every entry whose key is not greater than its own
InsertByKey(sorted, x) ==
    LET n == Cardinality({i \in 1..Len(sorted) : ~KeyLess(x.key, sorted[i].key)})
    IN  SubSeq(sorted, 1, n) \o <<x>> \o SubSeq(sorted, n + 1, Len(sorted))

RECURSIVE SortByKey(_)
SortByKey(entries) ==
    IF entries = <<>> THEN <<>>
    ELSE InsertByKey(SortByKey(SubSeq(entries, 1, Len(entries) - 1)),
                     entries[Len(entries)])

Items(entries) == [i \in 1..Len(entries) |-> entries[i].item]

(***************************************************************************)
(* league_table                                                            *)
(***************************************************************************)
\* TeamStanding()
ZeroStanding ==
    [played |-> 0, wins |-> 0, draws |-> 0, losses |-> 0,
     goals_for |-> 0, goals_against |-> 0]

goal_diff(row) == row.goals_for - row.goals_against
points(row) == row.wins * 3 + row.draws

\* defaultdict(TeamStanding) as the keys in insertion order and the rows
EmptyStandings == [order |-> <<>>, row |-> [t \in TeamIds |-> ZeroStanding]]

\* standings[team]: the row is created on first access
Touch(st, team) ==
    IF \E i \in 1..Len(st.order) : st.order[i] = team THEN st
    ELSE [st EXCEPT !.order = Append(@, team)]

\* row.field += n on the row of team
Add(st, team, field, n) == [st EXCEPT !.row[team][field] = @ + n]

\* a variant that books the away side's own goals as the goals against it
CountMatchAwayOwn(st, home, away, home_goals, away_goals) ==
    LET s1 == Touch(Touch(st, home), away)
        s2 == Add(Add(s1, home, "played", 1), away, "played", 1)
        s3 == Add(Add(s2, home, "goals_for", home_goals), home, "goals_against", away_goals)
        s4 == Add(Add(s3, away, "goals_for", away_goals), away, "goals_against", away_goals)
    IN  IF home_goals > away_goals
        THEN Add(Add(s4, home, "wins", 1), away, "losses", 1)
        ELSE IF home_goals < away_goals
        THEN Add(Add(s4, away, "wins", 1), home, "losses", 1)
        ELSE Add(Add(s4, home, "draws", 1), away, "draws", 1)

\* a variant that books no goals against the away side
CountMatchAwayUnbeaten(st, home, away, home_goals, away_goals) ==
    LET s1 == Touch(Touch(st, home), away)
        s2 == Add(Add(s1, home, "played", 1), away, "played", 1)
        s3 == Add(Add(s2, home, "goals_for", home_goals), home, "goals_against", away_goals)
        s4 == Add(s3, away, "goals_for", away_goals)
    IN  IF home_goals > away_goals
        THEN Add(Add(s4, home, "wins", 1), away, "losses", 1)
        ELSE IF home_goals < away_goals
        THEN Add(Add(s4, away, "wins", 1), home, "losses", 1)
        ELSE Add(Add(s4, home, "draws", 1), away, "draws", 1)

\* a variant in which a team that meets itself has played once
CountMatchSelfOnce(st, home, away, home_goals, away_goals) ==
    LET s1 == Touch(Touch(st, home), away)
        s2 == IF home = away THEN Add(s1, home, "played", 1)
              ELSE Add(Add(s1, home, "played", 1), away, "played", 1)
        s3 == Add(Add(s2, home, "goals_for", home_goals), home, "goals_against", away_goals)
        s4 == Add(Add(s3, away, "goals_for", away_goals), away, "goals_against", home_goals)
    IN  IF home_goals > away_goals
        THEN Add(Add(s4, home, "wins", 1), away, "losses", 1)
        ELSE IF home_goals < away_goals
        THEN Add(Add(s4, away, "wins", 1), home, "losses", 1)
        ELSE Add(Add(s4, home, "draws", 1), away, "draws", 1)

\* lines 52-68, one match with both team ids; home and away may be one row
CountMatch(st, home, away, home_goals, away_goals) ==
    LET s1 == Touch(Touch(st, home), away)
        s2 == Add(Add(s1, home, "played", 1), away, "played", 1)
        s3 == Add(Add(s2, home, "goals_for", home_goals), home, "goals_against", away_goals)
        s4 == Add(Add(s3, away, "goals_for", away_goals), away, "goals_against", home_goals)
    IN  IF home_goals > away_goals
        THEN Add(Add(s4, home, "wins", 1), away, "losses", 1)
        ELSE IF home_goals < away_goals
        THEN Add(Add(s4, away, "wins", 1), home, "losses", 1)
        ELSE Add(Add(s4, home, "draws", 1), away, "draws", 1)

\* lines 46-68: the loop over the matches; the score is parsed before the
\* team ids are looked at, and an exception of parse_score ends the loop
RECURSIVE Accumulate(_, _)
Accumulate(st, found) ==
    IF found = <<>> THEN Return(st)
    ELSE LET match == Head(found)
             home == match.home_team_id
             away == match.away_team_id
             goals == parse_score(ScoreOf(match))
         IN  IF Raised(goals) THEN goals
             ELSE IF home = Null \/ away = Null THEN Accumulate(st, Tail(found))
             ELSE Accumulate(CountMatch(st, home, away, goals.val[1], goals.val[2]),
                             Tail(found))

TableRow(st, team_id) ==
    LET row == st.row[team_id]
    IN  [team_id |-> team_id, played |-> row.played, wins |-> row.wins,
         draws |-> row.draws, losses |-> row.losses, goals_for |-> row.goals_for,
         goals_against |-> row.goals_against, goal_difference |-> goal_diff(row),
         points |-> points(row)]

\* a variant that sorts on the points alone
TableKeyPointsOnly(r) == <<0 - r.points>>

\* line 84
TableKey(r) == <<0 - r.points, 0 - r.goal_difference, 0 - r.goals_for>>

\* lines 70-84
SortedTable(st) ==
    Items(SortByKey([i \in 1..Len(st.order) |->
        LET r == TableRow(st, st.order[i]) IN [key |-> TableKey(r), item |-> r]]))

ValidationError == [handler |-> "error", code |-> 422, json |-> "VALIDATION_ERROR"]

\* an exception that leaves the view: the framework answers 500
ServerError(handler, exc) == [handler |-> handler, code |-> 500, json |-> exc]

\* lines 40-86 on the collection coll
TablesResponse(coll, competition, season) ==
    LET found == Find(coll, [competition_id |-> competition, season_id |-> season])
        st == Accumulate(EmptyStandings, found)
    IN  IF Raised(st) THEN ServerError("tables", st.exc)
        ELSE [handler |-> "tables", code |-> 200,
              json |-> [competition_id |-> competition, season_id |-> season,
                        table |-> SortedTable(st.val)]]

\* a variant that reads the matches before it tests the parameters
league_table_read_first(competition, season) ==
    /\ request' = [NoArgs EXCEPT !.competition = competition, !.season = season]
    /\ reads' = <<MatchesRead>>
    /\ response' = IF ~Present(competition) \/ ~Present(season)
                   THEN [ValidationError EXCEPT !.handler = "tables"]
                   ELSE TablesResponse(matches, competition, season)

league_table(competition, season) ==
    /\ request' = [NoArgs EXCEPT !.competition = competition, !.season = season]
    /\ IF ~Present(competition) \/ ~Present(season)
       THEN /\ response' = [ValidationError EXCEPT !.handler = "tables"]
            /\ reads' = <<>>
       ELSE /\ response' = TablesResponse(matches, competition, season)
            /\ reads' = <<MatchesRead>>

(***************************************************************************)
(* streaks                                                                 *)
(***************************************************************************)
result_symbol(goals_for, goals_against) ==
    IF goals_for > goals_against THEN "W"
    ELSE IF goals_for < goals_against THEN "L"
    ELSE "D"

\* a variant whose running counter is not reset by another symbol
RECURSIVE StreakScanNoReset(_, _)
StreakScanNoReset(sequence, target) ==
    IF sequence = <<>> THEN <<0, 0>>
    ELSE LET before == StreakScanNoReset(SubSeq(sequence, 1, Len(sequence) - 1), target)
             current == before[2] + 1
         IN  IF sequence[Len(sequence)] = target
             THEN <<IF before[1] > current THEN before[1] ELSE current, current>>
             ELSE before

\* a variant that takes the maximum only when a run ends, so that a run at
\* the end of the sequence is not counted
RECURSIVE StreakScanAtReset(_, _)
StreakScanAtReset(sequence, target) ==
    IF sequence = <<>> THEN <<0, 0>>
    ELSE LET before == StreakScanAtReset(SubSeq(sequence, 1, Len(sequence) - 1), target)
         IN  IF sequence[Len(sequence)] = target
             THEN <<before[1], before[2] + 1>>
             ELSE <<IF before[1] > before[2] THEN before[1] ELSE before[2], 0>>

\* a variant that keeps the length of the latest run, not of the longest
RECURSIVE StreakScanLatest(_, _)
StreakScanLatest(sequence, target) ==
    IF sequence = <<>> THEN <<0, 0>>
    ELSE LET before == StreakScanLatest(SubSeq(sequence, 1, Len(sequence) - 1), target)
             current == before[2] + 1
         IN  IF sequence[Len(sequence)] = target
             THEN <<current, current>>
             ELSE <<before[1], 0>>

\* the loop of longest_streak: <<longest, current>> after the sequence
RECURSIVE StreakScan(_, _)
StreakScan(sequence, target) ==
    IF sequence = <<>> THEN <<0, 0>>
    ELSE LET before == StreakScan(SubSeq(sequence, 1, Len(sequence) - 1), target)
             current == before[2] + 1
         IN  IF sequence[Len(sequence)] = target
             THEN <<IF before[1] > current THEN before[1] ELSE current, current>>
             ELSE <<before[1], 0>>

longest_streak(sequence, target) == StreakScan(sequence, target)[1]

(***************************************************************************)
(* longest_streak as a pure function: calls on one result sequence and on  *)
(* the same sequence in reverse order.                                     *)
(***************************************************************************)
MaxResults == 4
MaxCalls == 2

\* the symbols of lines 152-156 and 203-208
Symbols == {"W", "D", "L", "C", "N"}
Targets == {"W", "L", "C"}

ResultSequences == UNION {[1..n -> Symbols] : n \in 0..MaxResults}

Reverse(sequence) == [i \in 1..Len(sequence) |-> sequence[Len(sequence) + 1 - i]]

InitStreak ==
    /\ matches = <<>>
    /\ players = <<>>
    /\ users = <<>>
    /\ notes = <<>>
    /\ client = NoClient
    /\ clients = {}
    /\ gets = NoGets
    /\ request = NoArgs
    /\ response = Idle
    /\ reads = <<>>
    /\ score = PyNone
    /\ parsed = Pending
    /\ calls = NoCalls
    /\ locals = NoLocals
    /\ \E sequence \in ResultSequences, target \in Targets :
           streak = [NoStreak EXCEPT !.sequence = sequence, !.target = target]

CallLongestStreak ==
    /\ Len(streak.longest) < MaxCalls
    /\ streak' = [streak EXCEPT
                      !.longest = Append(@, longest_streak(streak.sequence, streak.target))]
    /\ UNCHANGED <<matches, players, request, response, reads, score, parsed, calls, locals, users, notes, client, clients, gets>>

CallOnReversed ==
    /\ streak.reversed = <<>>
    /\ streak' = [streak EXCEPT
                      !.reversed = <<longest_streak(Reverse(streak.sequence),
                                                    streak.target)>>]
    /\ UNCHANGED <<matches, players, request, response, reads, score, parsed, calls, locals, users, notes, client, clients, gets>>

NextStreak == CallLongestStreak \/ CallOnReversed

SpecStreak == InitStreak /\ [][NextStreak]_vars

\* cursor.sort([("date", 1)]): the documents in ascending date order; the
\* store does not fix the order of documents of equal date
DateSorted(found) ==
    LET n == Len(found)
        perms == {p \in [1..n -> 1..n] : \A i, j \in 1..n : i # j => p[i] # p[j]}
    IN  {[i \in 1..n |-> found[p[i]]] : p \in
            {q \in perms : \A i \in 1..(n - 1) : found[q[i]].date <= found[q[i + 1]].date}}

\* defaultdict(list) as the keys in insertion order and the lists
EmptyResults == [order |-> <<>>, row |-> [t \in TeamIds |-> <<>>]]

\* team_results[team].append(symbol)
AppendResult(tr, team, symbol) == [Touch(tr, team) EXCEPT !.row[team] = Append(@, symbol)]

\* lines 145-156
RECURSIVE CollectResults(_, _, _)
CollectResults(tr, found, streak_type) ==
    IF found = <<>> THEN Return(tr)
    ELSE LET match == Head(found)
             home == match.home_team_id
             away == match.away_team_id
             goals == parse_score(ScoreOf(match))
         IN  IF Raised(goals) THEN goals
             ELSE IF home = Null \/ away = Null
             THEN CollectResults(tr, Tail(found), streak_type)
             ELSE LET home_goals == goals.val[1]
                      away_goals == goals.val[2]
                      next ==
                        IF streak_type = "clean_sheet"
                        THEN AppendResult(
                                 AppendResult(tr, home, IF away_goals = 0 THEN "C" ELSE "N"),
                                 away, IF home_goals = 0 THEN "C" ELSE "N")
                        ELSE AppendResult(
                                 AppendResult(tr, home, result_symbol(home_goals, away_goals)),
                                 away, result_symbol(away_goals, home_goals))
                  IN  CollectResults(next, Tail(found), streak_type)

\* line 160
Target(streak_type) ==
    IF streak_type = "win" THEN "W" ELSE IF streak_type = "loss" THEN "L" ELSE "C"

\* lines 158-164: reverse=True keeps the order of equal keys
StreaksData(tr, streak_type) ==
    Items(SortByKey([i \in 1..Len(tr.order) |->
        LET longest == longest_streak(tr.row[tr.order[i]], Target(streak_type))
        IN  [key |-> <<0 - longest>>,
             item |-> [team_id |-> tr.order[i], streak |-> longest]]]))

StreakTypes == {"win", "loss", "clean_sheet"}

\* lines 143-165 on the collection coll: a response per order the sort
\* may give
StreaksResponses(coll, competition, season, streak_type) ==
    { LET tr == CollectResults(EmptyResults, found, streak_type)
      IN  IF Raised(tr) THEN ServerError("streaks", tr.exc)
          ELSE [handler |-> "streaks", code |-> 200,
                json |-> [type |-> streak_type,
                          streaks |-> StreaksData(tr.val, streak_type)]]
      : found \in DateSorted(Find(coll, ScopeQuery(competition, season))) }

\* a variant that reads the matches before it tests the type
streaks_read_first(competition, season, streak_type) ==
    /\ request' = [NoArgs EXCEPT !.competition = competition, !.season = season,
                                 !.type = streak_type]
    /\ reads' = <<MatchesRead>>
    /\ IF streak_type \notin StreakTypes
       THEN response' = [ValidationError EXCEPT !.handler = "streaks"]
       ELSE response' \in StreaksResponses(matches, competition, season, streak_type)

streaks(competition, season, streak_type) ==
    /\ request' = [NoArgs EXCEPT !.competition = competition, !.season = season,
                                 !.type = streak_type]
    /\ IF streak_type \notin StreakTypes
       THEN /\ response' = [ValidationError EXCEPT !.handler = "streaks"]
            /\ reads' = <<>>
       ELSE /\ response' \in StreaksResponses(matches, competition, season, streak_type)
            /\ reads' = <<MatchesRead>>

(***************************************************************************)
(* top_scorers                                                             *)
(***************************************************************************)
PlayerIds == {"p1", "p2", "p3"}

Goal(player_id) == [type |-> "goal", player_id |-> player_id]
Card(player_id) == [type |-> "card", player_id |-> player_id]

EventDoc(comp, season, events) ==
    [Doc(comp, season, 1, "A", "B", Dash(0, 0)) EXCEPT !.events = events]

\* The events a dataset may hold: goals of one or several players, goals
\* without a player id, events of another type.
EventDocs ==
    { EventDoc("c1", "s1", <<Goal("p1"), Goal("p2")>>),
      EventDoc("c1", "s1", <<Goal("p2"), Card("p1"), Goal("p2")>>),
      EventDoc("c1", "s1", <<Goal("p3"), Goal("p1")>>),
      EventDoc("c1", "s1", <<Goal(Null), Goal(""), Card("p2")>>),
      EventDoc("c2", "s1", <<Goal("p1")>>),
      EventDoc("c1", "s2", <<Goal("p3")>>) }

\* The player documents a dataset may hold (no document for p3); the
\* second has no name.
PlayerDocs == [p1 |-> [name |-> "Ann"], p2 |-> [name |-> Null]]

\* defaultdict(int) as the keys in insertion order and the counts
EmptyCounts == [order |-> <<>>, row |-> [p \in PlayerIds |-> 0]]

\* a variant that counts every event with a player id, whatever its type
RECURSIVE CountEventsAnyType(_, _)
CountEventsAnyType(gc, events) ==
    IF events = <<>> THEN gc
    ELSE LET event == Head(events)
         IN  IF Present(event.player_id)
             THEN CountEventsAnyType([Touch(gc, event.player_id) EXCEPT
                                         !.row[event.player_id] = @ + 1], Tail(events))
             ELSE CountEventsAnyType(gc, Tail(events))

\* lines 105-107: the events of one match
RECURSIVE CountEvents(_, _)
CountEvents(gc, events) ==
    IF events = <<>> THEN gc
    ELSE LET event == Head(events)
         IN  IF event.type = "goal" /\ Present(event.player_id)
             THEN CountEvents([Touch(gc, event.player_id) EXCEPT
                                  !.row[event.player_id] = @ + 1], Tail(events))
             ELSE CountEvents(gc, Tail(events))

\* lines 104-107
RECURSIVE CountGoals(_, _)
CountGoals(gc, found) ==
    IF found = <<>> THEN gc
    ELSE CountGoals(CountEvents(gc, Head(found).events), Tail(found))

\* player_docs.get(player_id, {}).get("name") over the documents the lookup found
NameOf(player_docs, player_id) ==
    IF player_id \in DOMAIN player_docs THEN player_docs[player_id].name ELSE Null

\* players_coll.find({"_id": {"$in": ids}}, {"name": 1})
FindPlayers(ids) ==
    [p \in {q \in DOMAIN players : \E i \in 1..Len(ids) : ids[i] = q} |-> players[p]]

\* a variant that leaves the leaders in the order the players were counted
LeadersUnsorted(gc, player_docs) ==
    [i \in 1..Len(gc.order) |->
        [player_id |-> gc.order[i], name |-> NameOf(player_docs, gc.order[i]),
         goals |-> gc.row[gc.order[i]]]]

\* lines 116-124: reverse=True keeps the order of equal keys
Leaders(gc, player_docs) ==
    Items(SortByKey([i \in 1..Len(gc.order) |->
        LET player_id == gc.order[i]
        IN  [key |-> <<0 - gc.row[player_id]>>,
             item |-> [player_id |-> player_id, name |-> NameOf(player_docs, player_id),
                       goals |-> gc.row[player_id]]]]))

\* seq[:limit]
SliceTo(seq, limit) ==
    IF limit >= 0
    THEN SubSeq(seq, 1, IF limit < Len(seq) THEN limit ELSE Len(seq))
    ELSE SubSeq(seq, 1, Len(seq) + limit)

\* a variant that looks the players up whether or not a goal was counted
ScorersReadsAlways(goal_counts) ==
    <<MatchesRead, [coll |-> "players", keys |-> goal_counts.order]>>

\* the reads of lines 102 and 109-115
ScorersReads(goal_counts) ==
    IF goal_counts.order = <<>> THEN <<MatchesRead>>
    ELSE <<MatchesRead, [coll |-> "players", keys |-> goal_counts.order]>>

top_scorers(competition, season, limit) ==
    LET found == Find(matches, ScopeQuery(competition, season))
        goal_counts == CountGoals(EmptyCounts, found)
    IN  /\ request' = [NoArgs EXCEPT !.competition = competition, !.season = season,
                                     !.limit = limit]
        /\ reads' = ScorersReads(goal_counts)
        /\ response' =
               [handler |-> "scorers", code |-> 200,
                json |-> [leaders |->
                    IF goal_counts.order = <<>> THEN <<>>
                    ELSE SliceTo(Leaders(goal_counts, FindPlayers(goal_counts.order)),
                                 limit)]]

(***************************************************************************)
(* head_to_head                                                            *)
(***************************************************************************)
\* The match documents a head-to-head dataset may hold: the two teams in
\* both orientations on several dates, two matches of one date, a match
\* with a third team, a match of a team against itself, a document
\* without a team id.
H2HDocs ==
    { Doc("c1", "s1", 1, "A", "B", Dash(2, 0)),
      Doc("c1", "s1", 2, "B", "A", Dash(2, 2)),
      Doc("c1", "s1", 3, "A", "B", Dash(0, 3)),
      Doc("c1", "s1", 2, "A", "B", Full(1, 1)),
      Doc("c1", "s1", 3, "C", "B", Dash(2, 1)),
      Doc("c1", "s1", 1, "A", "A", Dash(0, 0)),
      Doc("c1", "s1", 2, Null, "B", Dash(2, 0)) }

\* lines 176-181: the matches of the two teams in either orientation
FindH2H(coll, team_a, team_b) ==
    SelectSeq(coll, LAMBDA doc :
        \/ doc.home_team_id = team_a /\ doc.away_team_id = team_b
        \/ doc.home_team_id = team_b /\ doc.away_team_id = team_a)

\* cursor.sort([("date", -1)]): the documents in descending date order; the
\* store does not fix the order of documents of equal date
DateSortedDesc(found) ==
    LET n == Len(found)
        perms == {p \in [1..n -> 1..n] : \A i, j \in 1..n : i # j => p[i] # p[j]}
    IN  {[i \in 1..n |-> found[p[i]]] : p \in
            {q \in perms : \A i \in 1..(n - 1) : found[q[i]].date >= found[q[i + 1]].date}}

\* cursor.limit(limit) of the driver: a limit of 0 is no limit, a negative
\* limit is its absolute value
CursorLimit(cursor, limit) ==
    LET n == IF limit < 0 THEN 0 - limit ELSE limit
    IN  IF n = 0 THEN cursor
        ELSE SubSeq(cursor, 1, IF n < Len(cursor) THEN n ELSE Len(cursor))

\* lines 222-231 (the documents of the model carry no _id)
serialize_match(doc) ==
    [date |-> doc.date, competition_id |-> doc.competition_id,
     season_id |-> doc.season_id, home_team_id |-> doc.home_team_id,
     away_team_id |-> doc.away_team_id, score |-> doc.score]

\* lines 175-185 on the collection coll
H2HResponses(coll, team_a, team_b, limit) ==
    { [handler |-> "h2h", code |-> 200,
       json |-> [team_a |-> team_a, team_b |-> team_b,
                 matches |-> [i \in 1..Len(CursorLimit(cursor, limit)) |->
                                 serialize_match(CursorLimit(cursor, limit)[i])]]]
      : cursor \in DateSortedDesc(FindH2H(coll, team_a, team_b)) }

\* request.args.get("limit", 20)
LimitArg(limit_arg) == IF limit_arg = PyNone THEN PyInt(20) ELSE limit_arg

\* lines 168-185: limit is read, and int() may raise, before the teams are
\* tested
head_to_head(team_a, team_b, limit_arg) ==
    LET limit == PyIntOf(LimitArg(limit_arg))
    IN  /\ request' = [NoArgs EXCEPT !.team_a = team_a, !.team_b = team_b,
                                     !.limit_arg = limit_arg]
        /\ IF Raised(limit)
           THEN /\ response' = ServerError("h2h", limit.exc)
                /\ reads' = <<>>
           ELSE IF ~Present(team_a) \/ ~Present(team_b)
           THEN /\ response' = [ValidationError EXCEPT !.handler = "h2h"]
                /\ reads' = <<>>
           ELSE /\ response' \in H2HResponses(matches, team_a, team_b, limit.val)
                /\ reads' = <<MatchesRead>>

(***************************************************************************)
(* The requests and the datasets: the parameters a caller may send.        *)
(***************************************************************************)
CompetitionParams == {"", "c1"}
SeasonParams == {Null, "s1"}
TypeParams == StreakTypes \cup {Null, "draw"}
LimitParams == {-1, 0, 1, 2, 20}

\* The caller sends one request at a time: a view runs when no response is
\* outstanding, and its return hands the response over.
NoRequest == response.handler = "none"

ReturnResponse ==
    /\ ~NoRequest
    /\ request' = NoArgs
    /\ response' = Idle
    /\ reads' = <<>>
    /\ UNCHANGED <<matches, players, score, parsed, calls, locals, streak, users, notes, client, clients, gets>>

\* import_dataset("matches", ...): the documents are stored as they are
import_matches(doc) ==
    /\ NoRequest
    /\ Len(matches) < MaxMatches
    /\ matches' = Append(matches, doc)
    /\ UNCHANGED <<players, request, response, reads, score, parsed, calls, locals, streak, users, notes, client, clients, gets>>

\* import_dataset("players", ...)
import_players(player_id) ==
    /\ NoRequest
    /\ player_id \notin DOMAIN players
    /\ players' = [p \in DOMAIN players \cup {player_id} |->
                      IF p = player_id THEN PlayerDocs[p] ELSE players[p]]
    /\ UNCHANGED <<matches, request, response, reads, score, parsed, calls, locals, streak, users, notes, client, clients, gets>>

GetTables ==
    /\ NoRequest
    /\ \E competition \in CompetitionParams, season \in SeasonParams :
           league_table(competition, season)
    /\ UNCHANGED <<matches, players, score, parsed, calls, locals, streak, users, notes, client, clients, gets>>

GetStreaks ==
    /\ NoRequest
    /\ \E competition \in CompetitionParams, season \in SeasonParams,
          streak_type \in TypeParams :
           streaks(competition, season, streak_type)
    /\ UNCHANGED <<matches, players, score, parsed, calls, locals, streak, users, notes, client, clients, gets>>

GetScorers ==
    /\ NoRequest
    /\ \E competition \in CompetitionParams, season \in SeasonParams,
          limit \in LimitParams :
           top_scorers(competition, season, limit)
    /\ UNCHANGED <<matches, players, score, parsed, calls, locals, streak, users, notes, client, clients, gets>>

Init ==
    /\ matches = <<>>
    /\ players = <<>>
    /\ users = <<>>
    /\ notes = <<>>
    /\ client = NoClient
    /\ clients = {}
    /\ gets = NoGets
    /\ request = NoArgs
    /\ response = Idle
    /\ reads = <<>>
    /\ score = PyNone
    /\ parsed = Pending
    /\ calls = NoCalls
    /\ locals = NoLocals
    /\ streak = NoStreak

\* the league table over the result datasets
Next ==
    \/ \E doc \in ResultDocs : import_matches(doc)
    \/ GetTables
    \/ ReturnResponse

Spec == Init /\ [][Next]_vars

\* the streaks over the streak datasets
NextStreaks ==
    \/ \E doc \in StreakDocs : import_matches(doc)
    \/ GetStreaks
    \/ ReturnResponse

SpecStreaks == Init /\ [][NextStreaks]_vars

\* the leaderboard over the event datasets
NextScorers ==
    \/ \E doc \in EventDocs : import_matches(doc)
    \/ \E player_id \in DOMAIN PlayerDocs : import_players(player_id)
    \/ GetScorers
    \/ ReturnResponse

SpecScorers == Init /\ [][NextScorers]_vars

\* the head-to-head view over the head-to-head datasets
TeamParams == {Null, "", "A", "B"}
LimitArgs == {PyNone, PyStr(<<"0">>), PyStr(<<"1">>), PyStr(<<"2">>), PyStr(<<"x">>)}

GetH2H ==
    /\ NoRequest
    /\ \E team_a \in TeamParams, team_b \in TeamParams, limit_arg \in LimitArgs :
           head_to_head(team_a, team_b, limit_arg)
    /\ UNCHANGED <<matches, players, score, parsed, calls, locals, streak, users, notes, client, clients, gets>>

NextH2H ==
    \/ \E doc \in H2HDocs : import_matches(doc)
    \/ GetH2H
    \/ ReturnResponse

SpecH2H == Init /\ [][NextH2H]_vars

(***************************************************************************)
(* The views served side by side.  A call tests its parameters and reads   *)
(* the store (find), scans the documents it got one at a time into its     *)
(* accumulator, and responds; the steps of calls on different workers      *)
(* interleave.  The accumulators are locals of the view functions.         *)
(***************************************************************************)
\* a variant with one slot for the locals of every call, as if the
\* accumulators were module globals
LocalShared(w) == "w1"

\* the slot of the locals of the call that worker w serves: its own
Local(w) == w

\* lines 44, 103, 144, 183: the accumulator of a view and its first value
Accumulator(view) ==
    CASE view = "tables" -> "standings"
      [] view = "scorers" -> "goal_counts"
      [] view = "streaks" -> "team_results"
      [] view = "h2h" -> "data"

EmptyAccumulator(view) ==
    CASE view = "tables" -> EmptyStandings
      [] view = "scorers" -> EmptyCounts
      [] view = "streaks" -> EmptyResults
      [] view = "h2h" -> <<>>

SetLocal(frame, name, value) ==
    [n \in DOMAIN frame \cup {name} |-> IF n = name THEN value ELSE frame[n]]

DropLocal(frame, name) == [n \in DOMAIN frame \ {name} |-> frame[n]]

\* lines 37, 133, 173: the test of the parameters
Invalid(view, args) ==
    CASE view = "tables" -> ~Present(args.competition) \/ ~Present(args.season)
      [] view = "streaks" -> args.type \notin StreakTypes
      [] view = "scorers" -> FALSE
      [] view = "h2h" -> ~Present(args.team_a) \/ ~Present(args.team_b)

\* lines 42, 102, 143, 182: what the find of a view may return
Cursors(view, args) ==
    CASE view = "tables" ->
           {Find(matches, [competition_id |-> args.competition,
                           season_id |-> args.season])}
      [] view = "scorers" -> {Find(matches, ScopeQuery(args.competition, args.season))}
      [] view = "streaks" ->
           DateSorted(Find(matches, ScopeQuery(args.competition, args.season)))
      [] view = "h2h" ->
           {CursorLimit(cursor, PyIntOf(LimitArg(args.limit_arg)).val) :
               cursor \in DateSortedDesc(FindH2H(matches, args.team_a, args.team_b))}

\* lines 46-68, 104-107, 145-156, 183: one document into the accumulator
ScanInto(view, args, acc, match) ==
    CASE view = "tables" -> Accumulate(acc, <<match>>)
      [] view = "scorers" -> Return(CountEvents(acc, match.events))
      [] view = "streaks" -> CollectResults(acc, <<match>>, args.type)
      [] view = "h2h" -> Return(Append(acc, serialize_match(match)))

\* lines 70-86, 109-125, 158-165, 184: the response from the accumulator
Respond(view, args, acc) ==
    [handler |-> view, code |-> 200,
     json |->
        CASE view = "tables" ->
               [competition_id |-> args.competition, season_id |-> args.season,
                table |-> SortedTable(acc)]
          [] view = "scorers" ->
               [leaders |-> IF acc.order = <<>> THEN <<>>
                            ELSE SliceTo(Leaders(acc, FindPlayers(acc.order)),
                                         args.limit)]
          [] view = "streaks" ->
               [type |-> args.type, streaks |-> StreaksData(acc, args.type)]
          [] view = "h2h" ->
               [team_a |-> args.team_a, team_b |-> args.team_b, matches |-> acc]]

Finished(call, resp) == [call EXCEPT !.pc = "done", !.found = <<>>, !.response = resp]

\* a worker takes a request: the view tests the parameters and reads the
\* store
BeginCall(w, view, args) ==
    /\ calls[w].pc = "idle"
    /\ LET call == [NoCall EXCEPT !.view = view, !.args = args]
       IN  IF view = "h2h" /\ Raised(PyIntOf(LimitArg(args.limit_arg)))
           THEN /\ calls' = [calls EXCEPT ![w] = Finished(call,
                                ServerError(view, PyIntOf(LimitArg(args.limit_arg)).exc))]
                /\ UNCHANGED locals
           ELSE IF Invalid(view, args)
           THEN /\ calls' = [calls EXCEPT ![w] = Finished(call,
                                [ValidationError EXCEPT !.handler = view])]
                /\ UNCHANGED locals
           ELSE /\ \E found \in Cursors(view, args) :
                       calls' = [calls EXCEPT ![w] =
                                    [call EXCEPT !.pc = "scan", !.found = found]]
                /\ locals' = [locals EXCEPT ![Local(w)] =
                                 SetLocal(@, Accumulator(view), EmptyAccumulator(view))]
    /\ UNCHANGED <<matches, players, request, response, reads, score, parsed, streak, users, notes, client, clients, gets>>

\* the loop body of the view on the next document
ScanMatch(w) ==
    /\ calls[w].pc = "scan"
    /\ calls[w].found # <<>>
    /\ LET call == calls[w]
           name == Accumulator(call.view)
           out == ScanInto(call.view, call.args, locals[Local(w)][name], Head(call.found))
       IN  IF Raised(out)
           THEN /\ calls' = [calls EXCEPT ![w] =
                                Finished(call, ServerError(call.view, out.exc))]
                /\ locals' = [locals EXCEPT ![Local(w)] = DropLocal(@, name)]
           ELSE /\ calls' = [calls EXCEPT ![w].found = Tail(@)]
                /\ locals' = [locals EXCEPT ![Local(w)] = SetLocal(@, name, out.val)]
    /\ UNCHANGED <<matches, players, request, response, reads, score, parsed, streak, users, notes, client, clients, gets>>

\* the loop is over: the view builds its response and returns
RespondCall(w) ==
    /\ calls[w].pc = "scan"
    /\ calls[w].found = <<>>
    /\ LET call == calls[w]
           name == Accumulator(call.view)
       IN  /\ calls' = [calls EXCEPT ![w] =
                           Finished(call, Respond(call.view, call.args,
                                                  locals[Local(w)][name]))]
           /\ locals' = [locals EXCEPT ![Local(w)] = DropLocal(@, name)]
    /\ UNCHANGED <<matches, players, request, response, reads, score, parsed, streak, users, notes, client, clients, gets>>

\* the response is handed to the caller
ReturnCall(w) ==
    /\ calls[w].pc = "done"
    /\ calls' = [calls EXCEPT ![w] = NoCall]
    /\ UNCHANGED <<matches, players, request, response, reads, score, parsed, locals, streak, users, notes, client, clients, gets>>

\* The datasets and requests of the concurrent runs: two matches of one
\* date, with goals, and one whose score does not parse.
ConcurrentDocs ==
    { [Doc("c1", "s1", 1, "A", "B", Dash(2, 0)) EXCEPT
          !.events = <<Goal("p1"), Goal("p2")>>],
      [Doc("c1", "s1", 1, "B", "A", Full(1, 1)) EXCEPT !.events = <<Goal("p2")>>],
      Doc("c1", "s1", 2, "A", "C", BadSide) }

ConcurrentCalls ==
    { [view |-> "tables",
       args |-> [NoArgs EXCEPT !.competition = "c1", !.season = "s1"]],
      [view |-> "tables", args |-> [NoArgs EXCEPT !.competition = "c1"]],
      [view |-> "scorers", args |-> [NoArgs EXCEPT !.limit = 1]],
      [view |-> "streaks", args |-> [NoArgs EXCEPT !.type = "clean_sheet"]],
      [view |-> "streaks", args |-> [NoArgs EXCEPT !.type = "draw"]],
      [view |-> "h2h",
       args |-> [NoArgs EXCEPT !.team_a = "A", !.team_b = "B",
                               !.limit_arg = PyStr(<<"1">>)]] }

\* the store changes only while no request is served
AllIdle == \A w \in Workers : calls[w].pc = "idle"

NextConcurrent ==
    \/ \E doc \in ConcurrentDocs : AllIdle /\ import_matches(doc)
    \/ AllIdle /\ import_players("p2")
    \/ \E w \in Workers, c \in ConcurrentCalls : BeginCall(w, c.view, c.args)
    \/ \E w \in Workers : ScanMatch(w)
    \/ \E w \in Workers : RespondCall(w)
    \/ \E w \in Workers : ReturnCall(w)

SpecConcurrent == Init /\ [][NextConcurrent]_vars

(***************************************************************************)
(* auth.py and routes/matches.py: the match routes, the mutating ones      *)
(* behind require_auth("admin").  A stored match is here its _id, its      *)
(* scalar fields as one value, its events, lineups and stats.              *)
(***************************************************************************)
UserIds == {"u1"}
MatchIds == {"m1"}
EventIds == {"e1"}

\* The users collection as the deployment holds it: no user, or the user
\* with role admin, with role user, or without a role.
UserStores ==
    {<<>>} \cup {[u \in UserIds |-> [role |-> r]] : r \in {"admin", "user", Null}}

\* a JWT: its sub and role claims, whether exp has passed, and whether its
\* signature is made with the secret of the service
Token(sub, role, expired, signed) ==
    [sub |-> sub, role |-> role, expired |-> expired, signed |-> signed]

Bearer(token) == [scheme |-> "Bearer", token |-> token]

\* The Authorization headers a caller may send; a token that bears the
\* signature was issued by create_token and has a sub claim.
Headers ==
    { NoHeader,
      [scheme |-> "Basic", token |-> NoToken],
      Bearer(Token("u1", "admin", FALSE, TRUE)),
      Bearer(Token("u1", "user", FALSE, TRUE)),
      Bearer(Token("u1", "admin", TRUE, TRUE)),
      Bearer(Token("u1", "admin", FALSE, FALSE)) }

\* auth.py lines 39-40: jwt.decode checks the signature, then exp
decode_token(token) ==
    IF ~token.signed THEN Raise("InvalidTokenError")
    ELSE IF token.expired THEN Raise("ExpiredSignatureError")
    ELSE Return([sub |-> token.sub, role |-> token.role])

Deny(code, error) == [handler |-> "require_auth", code |-> code, json |-> error]

\* a variant that takes the role from the claims of the token
require_auth_by_claim(role, authorization) ==
    IF authorization.scheme # "Bearer" THEN Deny(401, "UNAUTHENTICATED")
    ELSE LET payload == decode_token(authorization.token)
         IN  IF Raised(payload)
             THEN IF payload.exc = "ExpiredSignatureError"
                  THEN Deny(401, "TOKEN_EXPIRED")
                  ELSE Deny(401, "INVALID_TOKEN")
             ELSE IF payload.val.sub \notin DOMAIN users
             THEN Deny(401, "UNAUTHENTICATED")
             ELSE IF role = "admin" /\ payload.val.role # "admin"
             THEN Deny(403, "UNAUTHORISED")
             ELSE Idle

\* auth.py lines 43-69: the wrapper answers itself, or (Idle) calls the view
require_auth(role, authorization) ==
    IF authorization.scheme # "Bearer" THEN Deny(401, "UNAUTHENTICATED")
    ELSE LET payload == decode_token(authorization.token)
         IN  IF Raised(payload)
             THEN IF payload.exc = "ExpiredSignatureError"
                  THEN Deny(401, "TOKEN_EXPIRED")
                  ELSE Deny(401, "INVALID_TOKEN")
             ELSE IF payload.val.sub \notin DOMAIN users
             THEN Deny(401, "UNAUTHENTICATED")
             ELSE IF role = "admin" /\ users[payload.val.sub].role # "admin"
             THEN Deny(403, "UNAUTHORISED")
             ELSE Idle

\* The JSON bodies a caller may send: one the schema refuses, one without
\* and one with an _id.
Bodies ==
    { [valid |-> FALSE, id |-> Null, fields |-> "a"],
      [valid |-> TRUE, id |-> Null, fields |-> "a"],
      [valid |-> TRUE, id |-> "m1", fields |-> "b"] }

NewMatch(id, fields) ==
    [_id |-> id, fields |-> fields, events |-> <<>>, lineups |-> "{}", stats |-> "{}"]

Stored(match_id) == {i \in 1..Len(matches) : matches[i]._id = match_id}

DocOf(coll, match_id) == coll[CHOOSE i \in 1..Len(coll) : coll[i]._id = match_id]

Answer(coll, route, code, json) ==
    [store |-> coll, notes |-> notes,
     response |-> [handler |-> route, code |-> code, json |-> json]]

\* update_one({"_id": match_id}, ...) and the find_one and response after
\* it: 404 when no document matched
Updated(route, match_id, coll) ==
    IF Stored(match_id) = {} THEN Answer(matches, route, 404, "NOT_FOUND")
    ELSE Answer(coll, route, 200, DocOf(coll, match_id))

SetField(match_id, field, value) ==
    [i \in 1..Len(matches) |->
        IF matches[i]._id = match_id THEN [matches[i] EXCEPT ![field] = value]
        ELSE matches[i]]

\* matches.py lines 57-76
create_match(body, uuid) ==
    LET id == IF body.id # Null THEN body.id ELSE uuid
    IN  IF ~body.valid THEN Answer(matches, "create_match", 422, "VALIDATION_ERROR")
        ELSE IF Stored(id) # {} THEN Answer(matches, "create_match", 409, "DUPLICATE")
        ELSE Answer(Append(matches, NewMatch(id, body.fields)), "create_match", 201,
                    NewMatch(id, body.fields))

\* lines 79-95
update_match(match_id, body) ==
    IF ~body.valid THEN Answer(matches, "update_match", 422, "VALIDATION_ERROR")
    ELSE Updated("update_match", match_id, SetField(match_id, "fields", body.fields))

\* lines 98-106: the match, then the notes of the match
delete_match(match_id) ==
    IF Stored(match_id) = {} THEN Answer(matches, "delete_match", 404, "NOT_FOUND")
    ELSE [Answer(SelectSeq(matches, LAMBDA doc : doc._id # match_id), "delete_match",
                 204, "")
             EXCEPT !.notes = SelectSeq(notes, LAMBDA note : note.match_id # match_id)]

\* lines 109-125
add_event(match_id, body, uuid) ==
    IF ~body.valid THEN Answer(matches, "add_event", 422, "VALIDATION_ERROR")
    ELSE Updated("add_event", match_id,
            [i \in 1..Len(matches) |->
                IF matches[i]._id = match_id
                THEN [matches[i] EXCEPT
                         !.events = Append(@, [_id |-> uuid, fields |-> body.fields])]
                ELSE matches[i]])

\* lines 128-145: the filter names the match and the event
update_event(match_id, event_id, body) ==
    IF ~body.valid THEN Answer(matches, "update_event", 422, "VALIDATION_ERROR")
    ELSE IF \A i \in Stored(match_id) :
                \A k \in 1..Len(matches[i].events) : matches[i].events[k]._id # event_id
    THEN Answer(matches, "update_event", 404, "NOT_FOUND")
    ELSE Updated("update_event", match_id,
            [i \in 1..Len(matches) |->
                IF matches[i]._id = match_id
                THEN [matches[i] EXCEPT !.events =
                         [k \in 1..Len(@) |->
                             IF @[k]._id = event_id
                             THEN [@[k] EXCEPT !.fields = body.fields] ELSE @[k]]]
                ELSE matches[i]])

\* lines 148-156
delete_event(match_id, event_id) ==
    Updated("delete_event", match_id,
        [i \in 1..Len(matches) |->
            IF matches[i]._id = match_id
            THEN [matches[i] EXCEPT
                     !.events = SelectSeq(@, LAMBDA event : event._id # event_id)]
            ELSE matches[i]])

\* lines 159-175
create_lineups(match_id, body) ==
    IF ~body.valid THEN Answer(matches, "create_lineups", 422, "VALIDATION_ERROR")
    ELSE Updated("create_lineups", match_id, SetField(match_id, "lineups", body.fields))

\* lines 185-193
delete_lineups(match_id) ==
    Updated("delete_lineups", match_id, SetField(match_id, "lineups", "unset"))

\* lines 196-206
update_stats(match_id, body) ==
    Updated("update_stats", match_id, SetField(match_id, "stats", body.fields))

\* lines 17-40 and 43-54
list_matches == Answer(matches, "list_matches", 200, matches)

get_match(match_id) ==
    IF Stored(match_id) = {} THEN Answer(matches, "get_match", 404, "NOT_FOUND")
    ELSE Answer(matches, "get_match", 200, DocOf(matches, match_id))

\* the routes of matches.py that carry @require_auth("admin"), and the
\* others
AdminRoutes ==
    {"create_match", "update_match", "delete_match", "add_event", "update_event",
     "delete_event", "create_lineups", "update_lineups", "delete_lineups",
     "update_stats"}

OpenRoutes == {"list_matches", "get_match"}

\* The requests a caller may send: the ids of the path name a stored match
\* or event or none.
MatchIdParams == {"m1", "m9"}
EventIdParams == {"e1", "e9"}

Call(route, match_id, event_id, body) ==
    [route |-> route, match_id |-> match_id, event_id |-> event_id, body |-> body]

MatchCalls ==
    {Call("create_match", Null, Null, b) : b \in Bodies}
        \cup {Call("list_matches", Null, Null, NoBody)}
        \cup {Call(r, m, Null, NoBody) :
                 r \in {"delete_match", "delete_lineups", "get_match"}, m \in MatchIdParams}
        \cup {Call(r, m, Null, b) :
                 r \in {"update_match", "add_event", "create_lineups", "update_lineups",
                        "update_stats"},
                 m \in MatchIdParams, b \in Bodies}
        \cup {Call("update_event", m, e, b) :
                 m \in MatchIdParams, e \in EventIdParams, b \in Bodies}
        \cup {Call("delete_event", m, e, NoBody) :
                 m \in MatchIdParams, e \in EventIdParams}

\* the values uuid.uuid4() may give where a view calls it: an id not in use
FreshIds(call) ==
    CASE call.route = "create_match" /\ call.body.id = Null ->
           MatchIds \ {matches[i]._id : i \in 1..Len(matches)}
      [] call.route = "add_event" ->
           EventIds \ UNION {{matches[i].events[k]._id : k \in 1..Len(matches[i].events)} :
                                i \in Stored(call.match_id)}
      [] OTHER -> {Null}

\* the view function of a route on the parameters of a call
View(call, uuid) ==
    CASE call.route = "create_match" -> create_match(call.body, uuid)
      [] call.route = "update_match" -> update_match(call.match_id, call.body)
      [] call.route = "delete_match" -> delete_match(call.match_id)
      [] call.route = "add_event" -> add_event(call.match_id, call.body, uuid)
      [] call.route = "update_event" ->
           update_event(call.match_id, call.event_id, call.body)
      [] call.route = "delete_event" -> delete_event(call.match_id, call.event_id)
      [] call.route = "create_lineups" -> create_lineups(call.match_id, call.body)
      [] call.route = "update_lineups" ->
           \* lines 178-182: the view calls create_lineups
           [create_lineups(call.match_id, call.body) EXCEPT
               !.response.handler = "update_lineups"]
      [] call.route = "delete_lineups" -> delete_lineups(call.match_id)
      [] call.route = "update_stats" -> update_stats(call.match_id, call.body)
      [] call.route = "list_matches" -> list_matches
      [] call.route = "get_match" -> get_match(call.match_id)

\* one request to a match route: the wrapper of require_auth where the
\* route has one, then the view
MatchRequest(call, authorization) ==
    /\ NoRequest
    /\ request' = [NoArgs EXCEPT !.route = call.route, !.authorization = authorization,
                                 !.match_id = call.match_id,
                                 !.event_id = call.event_id, !.body = call.body]
    /\ LET gate == IF call.route \in AdminRoutes
                   THEN require_auth("admin", authorization) ELSE Idle
       IN  IF gate.handler # "none"
           THEN /\ response' = [gate EXCEPT !.handler = call.route]
                /\ matches' = matches
                /\ notes' = notes
           ELSE \E uuid \in FreshIds(call) :
                    /\ response' = View(call, uuid).response
                    /\ matches' = View(call, uuid).store
                    /\ notes' = View(call, uuid).notes
    /\ reads' = <<>>
    /\ UNCHANGED <<players, score, parsed, calls, locals, streak, users, client, clients, gets>>

InitAuth ==
    /\ matches = <<>>
    /\ players = <<>>
    /\ users \in UserStores
    /\ notes = <<>>
    /\ client = NoClient
    /\ clients = {}
    /\ gets = NoGets
    /\ request = NoArgs
    /\ response = Idle
    /\ reads = <<>>
    /\ score = PyNone
    /\ parsed = Pending
    /\ calls = NoCalls
    /\ locals = NoLocals
    /\ streak = NoStreak

NextAuth ==
    \/ \E call \in MatchCalls, authorization \in Headers :
           MatchRequest(call, authorization)
    \/ ReturnResponse

SpecAuth == InitAuth /\ [][NextAuth]_vars

(***************************************************************************)
(* db.py: get_client, called by the threads that serve requests.  A thread *)
(* may be switched out between any two reads or writes of the global, so   *)
(* each of them is a step.                                                 *)
(***************************************************************************)
GetFrames == <<matches, players, request, response, reads, score, parsed, calls,
               locals, streak, users, notes>>

\* line 13: a request on thread t asks for the client
CallGetClient(t) ==
    /\ gets[t].pc = "out"
    /\ gets' = [gets EXCEPT ![t].pc = "test"]
    /\ UNCHANGED <<client, clients>>
    /\ UNCHANGED GetFrames

\* line 15: if _client is None
TestClient(t) ==
    /\ gets[t].pc = "test"
    /\ gets' = [gets EXCEPT ![t].pc = IF client = NoClient THEN "construct" ELSE "return"]
    /\ UNCHANGED <<client, clients>>
    /\ UNCHANGED GetFrames

\* The MongoClient objects in the order of their construction: a thread
\* constructs at most one, since no test finds None after a store.
MongoClient == <<"client1", "client2", "client3">>

\* line 16, the right side: MongoClient(config.MONGO_URI) makes a new object
ConstructClient(t) ==
    /\ gets[t].pc = "construct"
    /\ LET new == MongoClient[Cardinality(clients) + 1]
       IN  /\ clients' = clients \cup {new}
           /\ gets' = [gets EXCEPT ![t].pc = "store", ![t].new = new]
    /\ UNCHANGED client
    /\ UNCHANGED GetFrames

\* line 16, the assignment to the global
StoreClient(t) ==
    /\ gets[t].pc = "store"
    /\ client' = gets[t].new
    /\ gets' = [gets EXCEPT ![t].pc = "return"]
    /\ UNCHANGED clients
    /\ UNCHANGED GetFrames

\* line 17: return _client reads the global again; got is what the caller
\* holds from then on
ReturnClient(t) ==
    /\ gets[t].pc = "return"
    /\ gets' = [gets EXCEPT ![t].pc = "out", ![t].got = client]
    /\ UNCHANGED <<client, clients>>
    /\ UNCHANGED GetFrames

NextClient ==
    \/ \E t \in Threads : CallGetClient(t)
    \/ \E t \in Threads : TestClient(t)
    \/ \E t \in Threads : ConstructClient(t)
    \/ \E t \in Threads : StoreClient(t)
    \/ \E t \in Threads : ReturnClient(t)

SpecClient == Init /\ [][NextClient]_vars

(***************************************************************************)
(* routes/notes.py: the match notes, beside create_match and delete_match. *)
(***************************************************************************)
NoteIds == {"n1", "n2"}

\* the users collection of a deployment with a user and an admin
NoteUsers == [u \in {"u1", "u2"} |-> [role |-> IF u = "u2" THEN "admin" ELSE "user"]]

NoteHeaders ==
    { NoHeader,
      Bearer(Token("u1", "user", FALSE, TRUE)),
      Bearer(Token("u2", "admin", FALSE, TRUE)) }

\* The JSON bodies a caller may send to a note route: Null is an absent
\* key, bad a value that the schema refuses.
NoteBody(bad, rating, comment) == [bad |-> bad, rating |-> rating, comment |-> comment]

NoteBodies ==
    { NoteBody(TRUE, "9", Null),
      NoteBody(FALSE, "5", "b"),
      NoteBody(FALSE, "1", Null),
      NoteBody(FALSE, Null, Null) }

\* MatchNoteSchema().load and MatchNoteSchema(partial=True).load: the
\* payload has the keys rating and comment that create_note reads (lines
\* 46-47), both required unless partial
MatchNoteSchema(partial, data) ==
    IF data.bad THEN Raise("ValidationError")
    ELSE IF ~partial /\ (data.rating = Null \/ data.comment = Null)
    THEN Raise("ValidationError")
    ELSE Return([rating |-> data.rating, comment |-> data.comment])

\* datetime.now(timezone.utc) as the clock may give it
Times == {"t1", "t2"}

\* An update with an empty $set is accepted as a no-op by a server from
\* MongoDB 5.0 on and refused with a write error by an earlier one.
Servers == {"accepts", "rejects"}

NoteAnswer(coll, route, code, json) ==
    [notes |-> coll, response |-> [handler |-> route, code |-> code, json |-> json]]

\* lines 85-93
serialize_note(doc) ==
    [_id |-> doc._id, match_id |-> doc.match_id, user_id |-> doc.user_id,
     rating |-> doc.rating, comment |-> doc.comment, created_at |-> doc.created_at]

\* the notes that a filter on _id, match_id and user_id matches (lines 66, 78)
NoteQuery(note_id, match_id, user_id) ==
    {i \in 1..Len(notes) :
        /\ notes[i]._id = note_id
        /\ notes[i].match_id = match_id
        /\ notes[i].user_id = user_id}

\* {"$set": payload} on a note: the keys of the payload and no other
SetPayload(note, payload) ==
    [note EXCEPT !.rating = IF payload.rating # Null THEN payload.rating ELSE @,
                 !.comment = IF payload.comment # Null THEN payload.comment ELSE @]

\* lines 30-51
create_note(match_id, user_id, data, uuid, now) ==
    LET payload == MatchNoteSchema(FALSE, data)
        note == [_id |-> uuid, match_id |-> match_id, user_id |-> user_id,
                 rating |-> payload.val.rating, comment |-> payload.val.comment,
                 created_at |-> now]
    IN  IF Raised(payload) THEN NoteAnswer(notes, "create_note", 422, "VALIDATION_ERROR")
        ELSE NoteAnswer(Append(notes, note), "create_note", 201, serialize_note(note))

\* a variant whose filter leaves the user out
update_note_of_anyone(match_id, note_id, user_id, data, server) ==
    LET payload == MatchNoteSchema(TRUE, data)
        found == {i \in 1..Len(notes) :
                     notes[i]._id = note_id /\ notes[i].match_id = match_id}
        updated == [i \in 1..Len(notes) |->
                       IF i \in found THEN SetPayload(notes[i], payload.val) ELSE notes[i]]
    IN  IF Raised(payload) THEN NoteAnswer(notes, "update_note", 422, "VALIDATION_ERROR")
        ELSE IF payload.val.rating = Null /\ payload.val.comment = Null
                /\ server = "rejects"
        THEN NoteAnswer(notes, "update_note", 500, "WriteError")
        ELSE IF found = {} THEN NoteAnswer(notes, "update_note", 404, "NOT_FOUND")
        ELSE NoteAnswer(updated, "update_note", 200,
                        serialize_note(DocOf(updated, note_id)))

\* lines 54-71
update_note(match_id, note_id, user_id, data, server) ==
    LET payload == MatchNoteSchema(TRUE, data)
        found == NoteQuery(note_id, match_id, user_id)
        updated == [i \in 1..Len(notes) |->
                       IF i \in found THEN SetPayload(notes[i], payload.val) ELSE notes[i]]
    IN  IF Raised(payload) THEN NoteAnswer(notes, "update_note", 422, "VALIDATION_ERROR")
        ELSE IF payload.val.rating = Null /\ payload.val.comment = Null
                /\ server = "rejects"
        THEN NoteAnswer(notes, "update_note", 500, "WriteError")
        ELSE IF found = {} THEN NoteAnswer(notes, "update_note", 404, "NOT_FOUND")
        ELSE NoteAnswer(updated, "update_note", 200,
                        serialize_note(DocOf(updated, note_id)))

\* lines 74-82
delete_note(match_id, note_id, user_id) ==
    LET found == NoteQuery(note_id, match_id, user_id)
    IN  IF found = {} THEN NoteAnswer(notes, "delete_note", 404, "NOT_FOUND")
        ELSE NoteAnswer(SelectSeq(notes, LAMBDA note :
                            ~(note._id = note_id /\ note.match_id = match_id
                                /\ note.user_id = user_id)),
                        "delete_note", 204, "")

\* The requests a caller may send to the note routes: the ids of the path
\* name a stored match or note or none.
NoteIdParams == {"n1", "n2", "n9"}

NoteCall(route, match_id, note_id, data) ==
    [route |-> route, match_id |-> match_id, note_id |-> note_id, body |-> data]

NoteCalls ==
    {NoteCall("create_note", m, Null, b) : m \in MatchIdParams, b \in NoteBodies}
        \cup {NoteCall("update_note", m, n, b) :
                 m \in MatchIdParams, n \in NoteIdParams, b \in NoteBodies}
        \cup {NoteCall("delete_note", m, n, NoBody) :
                 m \in MatchIdParams, n \in NoteIdParams}

\* the values uuid.uuid4() (line 43) and datetime.now (line 48) may give,
\* and the servers that an empty $set (line 67) tells apart
FreshNoteIds(call) ==
    IF call.route = "create_note" /\ ~Raised(MatchNoteSchema(FALSE, call.body))
    THEN NoteIds \ {notes[i]._id : i \in 1..Len(notes)}
    ELSE {Null}

Clock(call) == IF call.route = "create_note" THEN Times ELSE {Null}

ServersOf(call) == IF call.route = "update_note" THEN Servers ELSE {"accepts"}

NoteView(call, user_id, uuid, now, server) ==
    CASE call.route = "create_note" ->
           create_note(call.match_id, user_id, call.body, uuid, now)
      [] call.route = "update_note" ->
           update_note(call.match_id, call.note_id, user_id, call.body, server)
      [] call.route = "delete_note" ->
           delete_note(call.match_id, call.note_id, user_id)

\* one request to a note route: the wrapper of require_auth() sets
\* g.current_user (auth.py lines 58-64), then the view runs
NoteRequest(call, authorization) ==
    /\ NoRequest
    /\ request' = [NoArgs EXCEPT !.route = call.route, !.authorization = authorization,
                                 !.match_id = call.match_id,
                                 !.note_id = call.note_id, !.body = call.body]
    /\ LET gate == require_auth(Null, authorization)
       IN  IF gate.handler # "none"
           THEN /\ response' = [gate EXCEPT !.handler = call.route]
                /\ notes' = notes
           ELSE LET user_id == decode_token(authorization.token).val.sub
                IN  \E uuid \in FreshNoteIds(call), now \in Clock(call),
                       server \in ServersOf(call) :
                        /\ response' = NoteView(call, user_id, uuid, now, server).response
                        /\ notes' = NoteView(call, user_id, uuid, now, server).notes
    /\ reads' = <<>>
    /\ UNCHANGED <<matches, players, score, parsed, calls, locals, streak, users,
                   client, clients, gets>>

\* create_match and delete_match beside the note routes
NoteMatchCalls ==
    {Call("create_match", Null, Null, b) : b \in {c \in Bodies : c.valid}}
        \cup {Call("delete_match", m, Null, NoBody) : m \in MatchIdParams}

InitNotes ==
    /\ matches = <<>>
    /\ players = <<>>
    /\ users = NoteUsers
    /\ notes = <<>>
    /\ client = NoClient
    /\ clients = {}
    /\ gets = NoGets
    /\ request = NoArgs
    /\ response = Idle
    /\ reads = <<>>
    /\ score = PyNone
    /\ parsed = Pending
    /\ calls = NoCalls
    /\ locals = NoLocals
    /\ streak = NoStreak

NextNotes ==
    \/ \E call \in NoteCalls, authorization \in NoteHeaders :
           NoteRequest(call, authorization)
    \/ \E call \in NoteMatchCalls, authorization \in NoteHeaders :
           MatchRequest(call, authorization)
    \/ ReturnResponse

SpecNotes == InitNotes /\ [][NextNotes]_vars

(***************************************************************************)
(* Score extraction: claims C1, C7, C8 (under SpecScore).                  *)
(***************************************************************************)
Called == parsed # Pending

SmallGoals == 0..3


\* a str that cannot be read as <int>-<int>: not exactly one dash, or a
\* character that is neither a digit nor a blank
MalformedStr(chars) ==
    \/ Cardinality({i \in 1..Len(chars) : chars[i] = "-"}) # 1
    \/ \E i \in 1..Len(chars) : chars[i] \notin Digits \cup {"-", " "}

\* C1: parse_score is total: whatever the score value, it returns a pair of
\* integers and never raises, and a missing or malformed score (None, a
\* value that is neither str nor mapping, a mapping without fulltime, a
\* malformed str) yields (0, 0).
C1_ParseScoreTotal ==
    Called =>
        /\ parsed.exc = "none"
        /\ Len(parsed.val) = 2
        /\ parsed.val[1] \in Int /\ parsed.val[2] \in Int
        /\ (score.t \notin {"str", "dict"} => parsed.val = <<0, 0>>)
        /\ (IsStr(score) /\ MalformedStr(score.v) => parsed.val = <<0, 0>>)

\* what the claim wants of one side of a fulltime mapping: its integer
\* value, and 0 when it is missing, falsy or not numeric
CoercedSide(fulltime, side) ==
    LET x == DictGet(fulltime, side, PyInt(0))
    IN  IF ~Truthy(x) \/ Raised(PyIntOf(x)) THEN 0 ELSE PyIntOf(x).val

\* C7: the two sides of a fulltime mapping are coerced independently, a
\* missing, falsy or non-numeric side becoming 0 while the other keeps its
\* value: {"fulltime": {"home": 3, "away": "x"}} gives (3, 0); None gives
\* (0, 0), "2-1" gives (2, 1), {"fulltime": "bad"} gives (0, 0).
C7_SidesCoercedIndependently ==
    Called =>
        /\ (IsDict(score) /\ "fulltime" \in DOMAIN score.v /\ IsDict(score.v["fulltime"])
              => parsed = Return(<<CoercedSide(score.v["fulltime"], "home"),
                                   CoercedSide(score.v["fulltime"], "away")>>))
        /\ (score = PyNone => parsed = Return(<<0, 0>>))
        /\ (score = PyStr(<<"2", "-", "1">>) => parsed = Return(<<2, 1>>))
        /\ (score = PyDict([k \in {"fulltime"} |-> PyStr(<<"b", "a", "d">>)])
              => parsed = Return(<<0, 0>>))

TableAnswered == response.handler = "tables" /\ response.code = 200

RECURSIVE SumFn(_)
SumFn(f) ==
    IF DOMAIN f = {} THEN 0
    ELSE LET x == CHOOSE y \in DOMAIN f : TRUE
         IN  f[x] + SumFn([y \in DOMAIN f \ {x} |-> f[y]])

\* the scoped matches that have both team ids
CountedIn(query) ==
    {i \in 1..Len(matches) :
        /\ Matching(matches[i], query)
        /\ matches[i].home_team_id # Null
        /\ matches[i].away_team_id # Null}

GoalsAt(i) == parse_score(ScoreOf(matches[i])).val

\* the matches of I that involve team t, and its goals in one of them
Involving(I, t) ==
    {i \in I : matches[i].home_team_id = t \/ matches[i].away_team_id = t}
OwnGoals(i, t) == IF matches[i].home_team_id = t THEN GoalsAt(i)[1] ELSE GoalsAt(i)[2]
OppGoals(i, t) == IF matches[i].home_team_id = t THEN GoalsAt(i)[2] ELSE GoalsAt(i)[1]

\* the sides of the matches of I that team t takes, and its goals on a side
SidesOf(I, t) ==
    {a \in I \X {"home", "away"} :
        t = IF a[2] = "home" THEN matches[a[1]].home_team_id
            ELSE matches[a[1]].away_team_id}
SideOwn(a) == IF a[2] = "home" THEN GoalsAt(a[1])[1] ELSE GoalsAt(a[1])[2]
SideOpp(a) == IF a[2] = "home" THEN GoalsAt(a[1])[2] ELSE GoalsAt(a[1])[1]

TableQuery == [competition_id |-> request.competition, season_id |-> request.season]

Derived(r) ==
    /\ r.goal_difference = r.goals_for - r.goals_against
    /\ r.points = 3 * r.wins + r.draws

\* C2 as claimed: each row of the table is the aggregate of its team over
\* the scoped matches with both team ids, a match counting once for a team
\* it involves: played is the number of these matches, goals_for and
\* goals_against the sums of its own and its opponent's goals, wins, losses
\* and draws the numbers of matches with own goals >, <, = the opponent's;
\* goal_difference = goals_for - goals_against, points = 3*wins + draws.
C2_RowPerMatch ==
    TableAnswered =>
        LET table == response.json.table
            I == CountedIn(TableQuery)
        IN  /\ {table[k].team_id : k \in 1..Len(table)} =
                   {t \in TeamIds : Involving(I, t) # {}}
            /\ \A k \in 1..Len(table) :
                   LET r == table[k]
                       M == Involving(I, r.team_id)
                   IN  /\ r.played = Cardinality(M)
                       /\ r.goals_for = SumFn([i \in M |-> OwnGoals(i, r.team_id)])
                       /\ r.goals_against = SumFn([i \in M |-> OppGoals(i, r.team_id)])
                       /\ r.wins = Cardinality({i \in M :
                              OwnGoals(i, r.team_id) > OppGoals(i, r.team_id)})
                       /\ r.losses = Cardinality({i \in M :
                              OwnGoals(i, r.team_id) < OppGoals(i, r.team_id)})
                       /\ r.draws = Cardinality({i \in M :
                              OwnGoals(i, r.team_id) = OppGoals(i, r.team_id)})
                       /\ Derived(r)

\* C2 amended: each row of the table is the aggregate of its team over the
\* sides it takes in the scoped matches with both team ids (a match of a
\* team against itself counts for both of its sides): played is the number
\* of these sides, goals_for and goals_against the sums of its own and its
\* opponent's goals, wins, losses and draws the numbers of sides with own
\* goals >, <, = the opponent's; goal_difference = goals_for -
\* goals_against, points = 3*wins + draws.  There is one row per team.
C2_RowPerSide ==
    TableAnswered =>
        LET table == response.json.table
            I == CountedIn(TableQuery)
        IN  /\ {table[k].team_id : k \in 1..Len(table)} =
                   {t \in TeamIds : SidesOf(I, t) # {}}
            /\ \A j, k \in 1..Len(table) : table[j].team_id = table[k].team_id => j = k
            /\ \A k \in 1..Len(table) :
                   LET r == table[k]
                       A == SidesOf(I, r.team_id)
                   IN  /\ r.played = Cardinality(A)
                       /\ r.goals_for = SumFn([a \in A |-> SideOwn(a)])
                       /\ r.goals_against = SumFn([a \in A |-> SideOpp(a)])
                       /\ r.wins = Cardinality({a \in A : SideOwn(a) > SideOpp(a)})
                       /\ r.losses = Cardinality({a \in A : SideOwn(a) < SideOpp(a)})
                       /\ r.draws = Cardinality({a \in A : SideOwn(a) = SideOpp(a)})
                       /\ Derived(r)

\* X 3-1 Y then Y 2-2 X: X played 2, wins 1, draws 1, losses 0, GF 5, GA 3,
\* GD +2, points 4, above Y with 1 point
C2_Witness ==
    /\ TableAnswered
    /\ matches = <<Doc("c1", "s1", 1, "A", "B", Full(3, 1)),
                   Doc("c1", "s1", 2, "B", "A", Dash(2, 2))>>
    /\ response.json.table =
           << [team_id |-> "A", played |-> 2, wins |-> 1, draws |-> 1, losses |-> 0,
               goals_for |-> 5, goals_against |-> 3, goal_difference |-> 2,
               points |-> 4],
              [team_id |-> "B", played |-> 2, wins |-> 0, draws |-> 1, losses |-> 1,
               goals_for |-> 3, goals_against |-> 5, goal_difference |-> 0 - 2,
               points |-> 1] >>

\* (points, goal_difference, goals_for) of r1 is lexicographically >= that of r2
RanksNotBelow(r1, r2) ==
    \/ r1.points > r2.points
    \/ /\ r1.points = r2.points
       /\ \/ r1.goal_difference > r2.goal_difference
          \/ /\ r1.goal_difference = r2.goal_difference
             /\ r1.goals_for >= r2.goals_for

\* C3: the table is ordered: of two consecutive rows the earlier one has the
\* lexicographically greater or equal (points, goal_difference, goals_for),
\* so more points come first and, at equal points, the larger goal
\* difference.
C3_TableOrdered ==
    TableAnswered =>
        LET table == response.json.table
        IN  \A k \in 1..(Len(table) - 1) : RanksNotBelow(table[k], table[k + 1])

\* three teams met in the order C, A, B: A leads on points, and B and C,
\* level on points and goal difference, are ordered by goals_for
C3_Witness ==
    /\ TableAnswered
    /\ matches = <<Doc("c1", "s1", 1, "C", "A", NoScore),
                   Doc("c1", "s1", 2, "A", "B", Full(1, 1))>>
    /\ LET table == response.json.table
       IN  /\ [k \in 1..Len(table) |-> table[k].team_id] = <<"A", "B", "C">>
           /\ table[2].points = table[3].points
           /\ table[2].goal_difference = table[3].goal_difference
           /\ table[2].goals_for > table[3].goals_for

\* the collection without the matches that lack a team id
WithBothTeams(coll) ==
    SelectSeq(coll, LAMBDA doc : doc.home_team_id # Null /\ doc.away_team_id # Null)

\* C5: a match without home_team_id or away_team_id is skipped silently: the
\* answer of /tables is the one the same request gets with these matches
\* taken out of the collection (no row, no counter changes, and no failure,
\* whatever their score fields hold).
C5_TeamlessMatchSkipped ==
    response.handler = "tables" /\ response.code # 422 =>
        response = TablesResponse(WithBothTeams(matches), request.competition,
                                  request.season)

\* C6: a request with valid parameters ends with a successful report,
\* whatever malformed match documents are stored.
C6_ReportNeverFails ==
    response.handler \in {"tables", "streaks", "scorers"} /\ response.code # 422 =>
        response.code = 200


(***************************************************************************)
(* Streaks: claim C4 (under SpecStreaks).                                  *)
(***************************************************************************)
StreaksAnswered == response.handler = "streaks" /\ response.code = 200

StreakQuery == ScopeQuery(request.competition, request.season)

\* the matches of I, each once, in an ascending date order
DateOrders(I) ==
    {o \in [1..Cardinality(I) -> I] :
        /\ \A j, k \in 1..Cardinality(I) : j # k => o[j] # o[k]
        /\ \A j \in 1..(Cardinality(I) - 1) : matches[o[j]].date <= matches[o[j + 1]].date}

\* whether the side of match i had the outcome: it won, it lost, or the
\* other side scored no goal
HomeHit(i, streak_type) ==
    CASE streak_type = "win" -> GoalsAt(i)[1] > GoalsAt(i)[2]
      [] streak_type = "loss" -> GoalsAt(i)[1] < GoalsAt(i)[2]
      [] streak_type = "clean_sheet" -> GoalsAt(i)[2] = 0
AwayHit(i, streak_type) ==
    CASE streak_type = "win" -> GoalsAt(i)[2] > GoalsAt(i)[1]
      [] streak_type = "loss" -> GoalsAt(i)[2] < GoalsAt(i)[1]
      [] streak_type = "clean_sheet" -> GoalsAt(i)[1] = 0

\* the outcomes of team t along the order o, one per match it is in
RECURSIVE OutcomesPerMatch(_, _, _)
OutcomesPerMatch(o, t, streak_type) ==
    IF o = <<>> THEN <<>>
    ELSE LET i == Head(o)
             rest == OutcomesPerMatch(Tail(o), t, streak_type)
         IN  IF matches[i].home_team_id = t \/ matches[i].away_team_id = t
             THEN <<\/ matches[i].home_team_id = t /\ HomeHit(i, streak_type)
                    \/ matches[i].away_team_id = t /\ AwayHit(i, streak_type)>> \o rest
             ELSE rest

\* the outcomes of team t along the order o, one per side it takes
RECURSIVE OutcomesPerSide(_, _, _)
OutcomesPerSide(o, t, streak_type) ==
    IF o = <<>> THEN <<>>
    ELSE LET i == Head(o)
         IN  (IF matches[i].home_team_id = t THEN <<HomeHit(i, streak_type)>> ELSE <<>>)
             \o (IF matches[i].away_team_id = t THEN <<AwayHit(i, streak_type)>> ELSE <<>>)
             \o OutcomesPerSide(Tail(o), t, streak_type)

\* the length of the longest block of consecutive TRUE entries
LongestRun(outcomes) ==
    CHOOSE n \in 0..Len(outcomes) :
        /\ \E start \in 1..(Len(outcomes) - n + 1) :
               \A j \in start..(start + n - 1) : outcomes[j]
        /\ \A m \in (n + 1)..Len(outcomes) :
               \A start \in 1..(Len(outcomes) - m + 1) :
                   \E j \in start..(start + m - 1) : ~outcomes[j]

\* C4 as claimed: the streak of a team is the length of its longest run of
\* consecutive matches, in ascending date order among the scoped matches
\* with both team ids, that it won, lost, or ended without conceding.
C4_LongestRunOfMatches ==
    StreaksAnswered =>
        LET rows == response.json.streaks
            I == CountedIn(StreakQuery)
        IN  \E o \in DateOrders(I) :
                /\ {rows[k].team_id : k \in 1..Len(rows)} =
                       {t \in TeamIds : Involving(I, t) # {}}
                /\ \A k \in 1..Len(rows) :
                       rows[k].streak =
                           LongestRun(OutcomesPerMatch(o, rows[k].team_id, request.type))

\* C4 amended: the streak of a team is the length of its longest run of
\* consecutive entries, one entry per side the team takes (a match of a
\* team against itself gives two, home side first) in ascending date order
\* among the scoped matches with both team ids, in which that side won,
\* lost, or conceded no goal.  There is one row per team.
C4_LongestRunOfSides ==
    StreaksAnswered =>
        LET rows == response.json.streaks
            I == CountedIn(StreakQuery)
        IN  \E o \in DateOrders(I) :
                /\ {rows[k].team_id : k \in 1..Len(rows)} =
                       {t \in TeamIds : SidesOf(I, t) # {}}
                /\ \A j, k \in 1..Len(rows) : rows[j].team_id = rows[k].team_id => j = k
                /\ \A k \in 1..Len(rows) :
                       rows[k].streak =
                           LongestRun(OutcomesPerSide(o, rows[k].team_id, request.type))

\* A 2-0 B, A 1-1 B, A 0-3 B by date, stored in another order: one win in a
\* row for A (and for B)
C4_Witness ==
    /\ StreaksAnswered
    /\ request.type = "win"
    /\ matches = <<Doc("c1", "s1", 3, "A", "B", Dash(0, 3)),
                   Doc("c1", "s1", 1, "A", "B", Dash(2, 0)),
                   Doc("c1", "s1", 2, "A", "B", Full(1, 1))>>
    /\ response.json.streaks =
           <<[team_id |-> "A", streak |-> 1], [team_id |-> "B", streak |-> 1]>>


(***************************************************************************)
(* Top scorers: claims C9, C10 (under SpecScorers).                        *)
(***************************************************************************)
ScorersAnswered == response.handler = "scorers"

\* the goal events of player p in the scoped matches
GoalEvents(p) ==
    {e \in UNION {{<<i, j>> : j \in 1..Len(matches[i].events)} :
                     i \in {n \in 1..Len(matches) : Matching(matches[n], StreakQuery)}} :
        /\ matches[e[1]].events[e[2]].type = "goal"
        /\ matches[e[1]].events[e[2]].player_id = p}

\* the players with a goal event in scope
Scorers == {p \in PlayerIds : GoalEvents(p) # {}}

Listed(p) ==
    \E k \in 1..Len(response.json.leaders) : response.json.leaders[k].player_id = p

\* C9 as claimed: a player is in the leaders if and only if a scoped event
\* has type goal and the player's non-empty id, with goals the number of
\* these events; other events and events without a player id are not
\* counted and cause no error.
C9_ListedIffScored ==
    ScorersAnswered =>
        LET leaders == response.json.leaders
        IN  /\ response.code = 200
            /\ \A p \in PlayerIds : Listed(p) <=> p \in Scorers
            /\ \A k \in 1..Len(leaders) :
                   /\ leaders[k].player_id \in PlayerIds
                   /\ leaders[k].goals = Cardinality(GoalEvents(leaders[k].player_id))

\* C9 amended: a player is in the leaders only if a scoped event has type
\* goal and the player's non-empty id, once, with goals the number of these
\* events, and every such player is in the leaders when limit is at least
\* the number of such players (a smaller limit cuts the list); other events
\* and events without a player id are not counted and cause no error.
C9_ListedOnlyIfScored ==
    ScorersAnswered =>
        LET leaders == response.json.leaders
        IN  /\ response.code = 200
            /\ \A p \in PlayerIds : Listed(p) => p \in Scorers
            /\ request.limit >= Cardinality(Scorers) =>
                   \A p \in Scorers : Listed(p)
            /\ \A j, k \in 1..Len(leaders) :
                   leaders[j].player_id = leaders[k].player_id => j = k
            /\ \A k \in 1..Len(leaders) :
                   /\ leaders[k].player_id \in PlayerIds
                   /\ leaders[k].goals = Cardinality(GoalEvents(leaders[k].player_id))

\* two goals of p2 beside a card of p1 and goals without a player id: p2
\* alone is listed, with 2 goals
C9_Witness ==
    /\ ScorersAnswered
    /\ request.limit = 20
    /\ matches = <<EventDoc("c1", "s1", <<Goal("p2"), Card("p1"), Goal("p2")>>),
                   EventDoc("c1", "s1", <<Goal(Null), Goal(""), Card("p2")>>)>>
    /\ Len(response.json.leaders) = 1
    /\ response.json.leaders[1].player_id = "p2"
    /\ response.json.leaders[1].goals = 2

PlayerReads == {k \in 1..Len(reads) : reads[k].coll = "players"}

\* no read of the players when no goal is in scope; otherwise one, after
\* the read of the matches, keyed by the scorers, each once
ReadsAsClaimed ==
    /\ Scorers = {} => PlayerReads = {} /\ response.json.leaders = <<>>
    /\ Scorers # {} =>
           /\ Cardinality(PlayerReads) = 1
           /\ \A k \in PlayerReads :
                  /\ \E j \in 1..(k - 1) : reads[j].coll = "matches"
                  /\ {reads[k].keys[n] : n \in 1..Len(reads[k].keys)} = Scorers
                  /\ Len(reads[k].keys) = Cardinality(Scorers)

\* C10 as claimed: the view reads the players not at all when no goal is in
\* scope, and otherwise once, after the matches, by the ids of the scorers;
\* a scorer the lookup does not resolve is still listed, with name null.
C10_UnresolvedListed ==
    ScorersAnswered =>
        /\ ReadsAsClaimed
        /\ \A p \in Scorers \ DOMAIN players :
               \E k \in 1..Len(response.json.leaders) :
                   /\ response.json.leaders[k].player_id = p
                   /\ response.json.leaders[k].name = Null

\* C10 amended: the view reads the players not at all when no goal is in
\* scope, and otherwise once, after the matches, by the ids of the scorers;
\* a scorer the lookup does not resolve has name null where it is listed,
\* and is listed when limit is at least the number of scorers (a smaller
\* limit cuts the list).
C10_UnresolvedNamedNull ==
    ScorersAnswered =>
        /\ ReadsAsClaimed
        /\ \A k \in 1..Len(response.json.leaders) :
               response.json.leaders[k].player_id \notin DOMAIN players =>
                   response.json.leaders[k].name = Null
        /\ request.limit >= Cardinality(Scorers) =>
               \A p \in Scorers \ DOMAIN players : Listed(p)

\* p3, of whom there is no document, and p1, who has one, scored: one read
\* of the players after the matches; p3 is listed with name null
C10_Witness ==
    /\ ScorersAnswered
    /\ Scorers = {"p1", "p3"}
    /\ "p1" \in DOMAIN players
    /\ Len(reads) = 2 /\ reads[1].coll = "matches" /\ reads[2].coll = "players"
    /\ \E j, k \in 1..Len(response.json.leaders) :
           /\ response.json.leaders[j].player_id = "p3"
           /\ response.json.leaders[j].name = Null
           /\ response.json.leaders[k].player_id = "p1"
           /\ response.json.leaders[k].name = "Ann"


(***************************************************************************)
(* Top scorers: claim C11 (under SpecScorers).                             *)
(***************************************************************************)
MinOf(a, b) == IF a < b THEN a ELSE b

\* C11: for a limit >= 0 the leaders are min(limit, number of scorers)
\* entries, in non-increasing order of goals, and no scorer left out has
\* more goals than one that is listed; a zero or negative limit cuts the
\* list and is no error.
C11_TopByGoals ==
    ScorersAnswered =>
        LET leaders == response.json.leaders
        IN  /\ response.code = 200
            /\ request.limit >= 0 =>
                   Len(leaders) = MinOf(request.limit, Cardinality(Scorers))
            /\ request.limit < 0 => Len(leaders) < Cardinality(Scorers) \/ leaders = <<>>
            /\ \A k \in 1..(Len(leaders) - 1) : leaders[k].goals >= leaders[k + 1].goals
            /\ \A p \in Scorers : \A k \in 1..Len(leaders) :
                   ~Listed(p) => Cardinality(GoalEvents(p)) <= leaders[k].goals

\* p1 scored once and, counted after it, p2 three times; with limit 1 the
\* leaders are p2 alone
C11_Witness ==
    /\ ScorersAnswered
    /\ request.limit = 1
    /\ Cardinality(GoalEvents("p1")) = 1
    /\ Cardinality(GoalEvents("p2")) = 3
    /\ Len(response.json.leaders) = 1
    /\ response.json.leaders[1].player_id = "p2"
    /\ response.json.leaders[1].goals = 3
    /\ reads[2].keys = <<"p1", "p2">>


(***************************************************************************)
(* Head to head: claims C12, C13 (under SpecH2H).                          *)
(***************************************************************************)
H2HAsked == response.handler = "h2h"

\* the limit of the request, where int() reads one
ParsedLimit == PyIntOf(LimitArg(request.limit_arg))

\* the stored matches between the two teams of the request
Between ==
    {i \in 1..Len(matches) :
        \/ /\ matches[i].home_team_id = request.team_a
           /\ matches[i].away_team_id = request.team_b
        \/ /\ matches[i].home_team_id = request.team_b
           /\ matches[i].away_team_id = request.team_a}

\* the returned matches are stored matches between the two teams, each
\* returned at most as often as it is stored
ReturnedOf(ms) ==
    \E f \in [1..Len(ms) -> Between] :
        /\ \A j, k \in 1..Len(ms) : j # k => f[j] # f[k]
        /\ \A k \in 1..Len(ms) : ms[k] = serialize_match(matches[f[k]])

\* C12: for a limit >= 0, /h2h returns only matches of the two teams in
\* either orientation, in non-increasing date order, at most limit of them,
\* and no match of the two teams that is left out is newer than one that
\* is returned.
C12_NewestAtMostLimit ==
    (H2HAsked /\ response.code = 200 /\ ParsedLimit.val >= 0) =>
        LET ms == response.json.matches
        IN  /\ ReturnedOf(ms)
            /\ \A k \in 1..(Len(ms) - 1) : ms[k].date >= ms[k + 1].date
            /\ Len(ms) <= ParsedLimit.val
            /\ \A k \in 1..Len(ms) :
                   Cardinality({i \in Between : matches[i].date > ms[k].date})
                       = Cardinality({j \in 1..Len(ms) : ms[j].date > ms[k].date})

\* C13: a /h2h request without team_a or team_b, or with an empty one, ends
\* with 422 VALIDATION_ERROR whatever its other parameters, limit among
\* them, and reads no match.
C13_TeamsRequired ==
    (H2HAsked /\ (~Present(request.team_a) \/ ~Present(request.team_b))) =>
        /\ response.code = 422
        /\ response.json = "VALIDATION_ERROR"
        /\ reads = <<>>


(***************************************************************************)
(* Validation: claims C14 (under SpecStreaks) and C15 (under Spec).        *)
(***************************************************************************)
\* C14: a /streaks request whose type is absent or is not win, loss or
\* clean_sheet ends with 422 VALIDATION_ERROR, and no match is read and no
\* streak computed before it.
C14_TypeRequired ==
    (response.handler = "streaks" /\ request.type \notin {"win", "loss", "clean_sheet"}) =>
        /\ response.code = 422
        /\ response.json = "VALIDATION_ERROR"
        /\ reads = <<>>

\* a request of type draw over a store that holds matches
C14_Witness ==
    /\ response.handler = "streaks"
    /\ request.type = "draw"
    /\ response.code = 422
    /\ reads = <<>>
    /\ Len(matches) = 2

\* C15: a /tables request whose competition or season is absent or empty
\* ends with 422 VALIDATION_ERROR, and no match is read and no standing
\* computed before it.
C15_ScopeRequired ==
    (/\ response.handler = "tables"
     /\ request.competition \in {Null, ""} \/ request.season \in {Null, ""}) =>
        /\ response.code = 422
        /\ response.json = "VALIDATION_ERROR"
        /\ reads = <<>>

\* a request with a competition and no season over a store that holds
\* matches of the competition
C15_Witness ==
    /\ response.handler = "tables"
    /\ request.competition = "c1"
    /\ request.season = Null
    /\ response.code = 422
    /\ reads = <<>>
    /\ \E i \in 1..Len(matches) : matches[i].competition_id = "c1"


(***************************************************************************)
(* Concurrent requests: claim C16 (under SpecConcurrent).                  *)
(***************************************************************************)
\* the responses a request may get when it is served alone on the store
RunAlone(view, args) ==
    CASE view = "tables" ->
           IF ~Present(args.competition) \/ ~Present(args.season)
           THEN {[ValidationError EXCEPT !.handler = "tables"]}
           ELSE {TablesResponse(matches, args.competition, args.season)}
      [] view = "streaks" ->
           IF args.type \notin StreakTypes
           THEN {[ValidationError EXCEPT !.handler = "streaks"]}
           ELSE StreaksResponses(matches, args.competition, args.season, args.type)
      [] view = "scorers" ->
           LET goal_counts ==
                   CountGoals(EmptyCounts,
                              Find(matches, ScopeQuery(args.competition, args.season)))
           IN  {[handler |-> "scorers", code |-> 200,
                 json |-> [leaders |->
                     IF goal_counts.order = <<>> THEN <<>>
                     ELSE SliceTo(Leaders(goal_counts, FindPlayers(goal_counts.order)),
                                  args.limit)]]}
      [] view = "h2h" ->
           LET limit == PyIntOf(LimitArg(args.limit_arg))
           IN  IF Raised(limit) THEN {ServerError("h2h", limit.exc)}
               ELSE IF ~Present(args.team_a) \/ ~Present(args.team_b)
               THEN {[ValidationError EXCEPT !.handler = "h2h"]}
               ELSE H2HResponses(matches, args.team_a, args.team_b, limit.val)

SameAsAlone ==
    \A w \in Workers :
        calls[w].pc = "done" => calls[w].response \in RunAlone(calls[w].view, calls[w].args)

\* while a request is served no step changes a store, and the accumulator
\* of a call changes only by a step of that call
StoresAndLocalsKept ==
    /\ ~AllIdle => matches' = matches /\ players' = players
    /\ \A w \in Workers :
           calls[w].pc = "scan" /\ calls'[w] = calls[w] => locals'[w] = locals[w]

\* C16: under any interleaving of concurrent analytics requests over an
\* unchanged store, every request gets a response it gets when it is served
\* alone on that store, no accumulator of a request is touched by another
\* request, and both stores are left unchanged.
C16_RequestsIndependent == []SameAsAlone /\ [][StoresAndLocalsKept]_vars

\* one worker has answered /tables over two matches while the other is
\* half way through its own scan for /tables
C16_Witness ==
    /\ Len(matches) = 2
    /\ calls["w1"].pc = "done"
    /\ calls["w1"].view = "tables"
    /\ calls["w1"].response.code = 200
    /\ Len(calls["w1"].response.json.table) = 2
    /\ calls["w2"].pc = "scan"
    /\ calls["w2"].view = "tables"
    /\ Len(calls["w2"].found) = 1
    /\ locals["w2"]["standings"].order # <<>>


(***************************************************************************)
(* League table: claim C17 (under Spec).                                   *)
(***************************************************************************)
RowOf(team) ==
    LET table == response.json.table
    IN  table[CHOOSE k \in 1..Len(table) : table[k].team_id = team]

\* C17: a match adds to the home side's goals_against what it adds to the
\* away side's goals_for, and the other way round, so that over the rows
\* of the table the goals_for and the goals_against have the same sum and
\* the goal differences sum to zero.
C17_GoalsSymmetric ==
    TableAnswered =>
        LET table == response.json.table
            counted == CountedIn(TableQuery)
        IN  /\ SumFn([k \in 1..Len(table) |-> table[k].goals_for])
                 = SumFn([k \in 1..Len(table) |-> table[k].goals_against])
            /\ SumFn([k \in 1..Len(table) |-> table[k].goal_difference]) = 0
            /\ \A i \in counted :
                   (counted = {i} /\ matches[i].home_team_id # matches[i].away_team_id) =>
                       /\ RowOf(matches[i].home_team_id).goals_against
                              = RowOf(matches[i].away_team_id).goals_for
                       /\ RowOf(matches[i].home_team_id).goals_for
                              = RowOf(matches[i].away_team_id).goals_against

\* A 3-1 B, B 2-2 A and a match of C and B without goals: 8 goals for and
\* 8 against over three rows
C17_Witness ==
    /\ TableAnswered
    /\ Len(response.json.table) = 3
    /\ SumFn([k \in 1..3 |-> response.json.table[k].goals_for]) = 8
    /\ SumFn([k \in 1..3 |-> response.json.table[k].goals_against]) = 8
    /\ \E k \in 1..3 : response.json.table[k].goal_difference > 0


(***************************************************************************)
(* longest_streak: claims C18, C19 (under SpecStreak).                     *)
(***************************************************************************)
\* C18 as claimed: some result sequence has, for some target, a longest
\* streak that differs from the longest streak of the same sequence in
\* reverse order.
C18_ReversalChangesSome ==
    streak.reversed # <<>> =>
        \E sequence \in ResultSequences, target \in Targets :
            longest_streak(sequence, target) # longest_streak(Reverse(sequence), target)

\* C18 amended: the longest streak of a result sequence is that of the same
\* sequence in reverse order, for every sequence and target; the order
\* matters for other rearrangements: W,W,L has a longest win streak of 2
\* and W,L,W one of 1.
C18_ReversalKeepsLongest ==
    /\ (streak.longest # <<>> /\ streak.reversed # <<>>) =>
           streak.reversed[1] = streak.longest[1]
    /\ longest_streak(<<"W", "W", "L">>, "W") = 2
    /\ longest_streak(<<"W", "L", "W">>, "W") = 1

\* L,W,W and its reverse W,W,L both have a longest win streak of 2
C18_Witness ==
    /\ streak.sequence = <<"L", "W", "W">>
    /\ streak.target = "W"
    /\ streak.longest # <<>> /\ streak.longest[1] = 2
    /\ streak.reversed = <<2>>

\* the symbols of the sequence that are the target
Hits(sequence, target) == [i \in 1..Len(sequence) |-> sequence[i] = target]

\* C19: longest_streak returns the length of the longest block of
\* consecutive target symbols: 0 when the target does not occur (as in the
\* empty sequence), at most the number of occurrences of the target, any
\* other symbol ending the running block; a second call on the same
\* sequence returns the same value.
C19_LongestBlock ==
    \A k \in 1..Len(streak.longest) :
        /\ streak.longest[k] = LongestRun(Hits(streak.sequence, streak.target))
        /\ streak.longest[k] <=
               Cardinality({i \in 1..Len(streak.sequence) :
                               streak.sequence[i] = streak.target})
        /\ (\A i \in 1..Len(streak.sequence) : streak.sequence[i] # streak.target)
               => streak.longest[k] = 0
        /\ streak.longest[k] = streak.longest[1]

\* W,W,D,W: three occurrences, the longest block is 2, in both of two calls
C19_Witness ==
    /\ streak.sequence = <<"W", "W", "D", "W">>
    /\ streak.target = "W"
    /\ streak.longest = <<2, 2>>


(***************************************************************************)
(* Match routes: claim C20 (under SpecAuth).                               *)
(***************************************************************************)
\* the request carries a bearer token that is genuine and not expired, of
\* a stored user whose stored role is admin
AdminToken(req) ==
    /\ req.authorization.scheme = "Bearer"
    /\ req.authorization.token.signed
    /\ ~req.authorization.token.expired
    /\ req.authorization.token.sub \in DOMAIN users
    /\ users[req.authorization.token.sub].role = "admin"

MatchMutations ==
    {"create_match", "update_match", "delete_match", "add_event", "update_event",
     "delete_event", "create_lineups", "update_lineups", "delete_lineups",
     "update_stats"}

AnsweredNow == response.handler = "none" /\ response'.handler # "none"

MutationsNeedAdmin ==
    AnsweredNow =>
        /\ request'.route \in MatchMutations =>
               /\ matches' # matches => AdminToken(request')
               /\ ~AdminToken(request') =>
                      response'.code \in {401, 403} /\ matches' = matches
        /\ request'.route \in {"list_matches", "get_match"} =>
               response'.code \notin {401, 403} /\ matches' = matches

\* C20: a match mutation (create, update, delete, add, update or delete an
\* event, set or delete the lineups, set the stats) changes the match store
\* only on a request with a valid unexpired bearer token of a stored user
\* whose stored role is admin; every other such request is answered 401 or
\* 403 and leaves the store as it is; listing and reading matches need no
\* credentials.
C20_MutationsAdminOnly == [][MutationsNeedAdmin]_vars

\* an admin has created a match
C20_Witness ==
    /\ response.handler = "create_match"
    /\ response.code = 201
    /\ request.authorization = Bearer(Token("u1", "admin", FALSE, TRUE))
    /\ users["u1"].role = "admin"
    /\ Len(matches) = 1


(***************************************************************************)
(* League table: claim C21 (under Spec).                                   *)
(***************************************************************************)
Column(table, field) == [k \in 1..Len(table) |-> table[k][field]]

\* C21: in a table that /tables answers, every row has played = wins +
\* draws + losses; over the rows the wins sum to the losses, the draws sum
\* to an even number and played sums to twice the number of scoped matches
\* that have both team ids, a match of a team against itself included.
C21_TableTotals ==
    TableAnswered =>
        LET table == response.json.table
        IN  /\ \A k \in 1..Len(table) :
                   table[k].played = table[k].wins + table[k].draws + table[k].losses
            /\ SumFn(Column(table, "wins")) = SumFn(Column(table, "losses"))
            /\ SumFn(Column(table, "draws")) % 2 = 0
            /\ SumFn(Column(table, "played")) = 2 * Cardinality(CountedIn(TableQuery))

\* B 1-0 B, A 0-0 A and A 2-0 B: B has a win and two losses in three sides
\* played, A a win and two draws
C21_Witness ==
    /\ TableAnswered
    /\ Cardinality(CountedIn(TableQuery)) = 3
    /\ \E i \in CountedIn(TableQuery) :
           /\ matches[i].home_team_id = matches[i].away_team_id
           /\ GoalsAt(i)[1] > GoalsAt(i)[2]
    /\ \E i \in CountedIn(TableQuery) :
           /\ matches[i].home_team_id = matches[i].away_team_id
           /\ GoalsAt(i)[1] = GoalsAt(i)[2]
    /\ Len(response.json.table) = 2
    /\ RowOf("B").played = 3 /\ RowOf("B").wins = 1 /\ RowOf("B").losses = 2
    /\ RowOf("A").played = 3 /\ RowOf("A").wins = 1 /\ RowOf("A").draws = 2


(***************************************************************************)
(* Database client: claim C22 (under SpecClient).                          *)
(***************************************************************************)
\* C22: whatever the interleaving of the calls of get_client, at most one
\* MongoClient is constructed and all callers hold the same client.
C22_ClientSingleton ==
    /\ Cardinality(clients) <= 1
    /\ \A t, u \in Threads :
           (gets[t].got # NoClient /\ gets[u].got # NoClient) => gets[t].got = gets[u].got


(***************************************************************************)
(* Match notes: claim C23 (under SpecNotes).                               *)
(***************************************************************************)
\* C23: whatever requests create_match, delete_match and create_note have
\* served, every stored note has the match_id of a stored match.
C23_NotesHaveMatch ==
    \A i \in 1..Len(notes) : Stored(notes[i].match_id) # {}


(***************************************************************************)
(* Match notes: claim C24 (under SpecNotes).                               *)
(***************************************************************************)
\* the step answers a request to update_note or delete_note
NoteChangeAnswered ==
    /\ NoRequest
    /\ response'.handler \in {"update_note", "delete_note"}

\* the step serves a caller that require_auth() lets through, and the
\* stored note of the path is of another user or another match
ForeignTo(i) ==
    /\ require_auth(Null, request'.authorization).handler = "none"
    /\ notes[i]._id = request'.note_id
    /\ \/ notes[i].user_id # decode_token(request'.authorization.token).val.sub
       \/ notes[i].match_id # request'.match_id

\* update_note leaves every note in its place with its _id, user_id,
\* match_id and created_at
UpdateKeepsOrigin ==
    response'.handler = "update_note" =>
        /\ Len(notes') = Len(notes)
        /\ \A i \in 1..Len(notes) :
               /\ notes'[i]._id = notes[i]._id
               /\ notes'[i].user_id = notes[i].user_id
               /\ notes'[i].match_id = notes[i].match_id
               /\ notes'[i].created_at = notes[i].created_at

\* C24 as claimed: update_note and delete_note by an authenticated user who
\* is not the note's author, or under another match than the note's,
\* answer 404 and leave the notes as they are, and update_note never
\* changes the user_id, match_id or created_at of a note.
ForeignChangeIs404 ==
    NoteChangeAnswered =>
        /\ \A i \in 1..Len(notes) :
               ForeignTo(i) => response'.code = 404 /\ notes' = notes
        /\ UpdateKeepsOrigin

C24_OnlyAuthorOr404 == [][ForeignChangeIs404]_vars

\* C24 amended: such a request never succeeds and leaves the notes as they
\* are; delete_note answers 404; update_note answers 422 when its body
\* fails validation (which runs before the note is looked up), 404 when its
\* body sets a field, and 404 or an unhandled write error (500) when its
\* body sets none, as the database accepts or refuses an empty $set; and
\* update_note never changes the user_id, match_id or created_at of a note.
ForeignChangeRefused ==
    NoteChangeAnswered =>
        /\ \A i \in 1..Len(notes) :
               ForeignTo(i) =>
                   /\ notes' = notes
                   /\ LET payload == MatchNoteSchema(TRUE, request'.body)
                      IN  IF response'.handler = "delete_note" THEN response'.code = 404
                          ELSE IF Raised(payload) THEN response'.code = 422
                          ELSE IF payload.val.rating = Null /\ payload.val.comment = Null
                          THEN response'.code \in {404, 500}
                          ELSE response'.code = 404
        /\ UpdateKeepsOrigin

C24_OnlyAuthorChanges == [][ForeignChangeRefused]_vars

\* the admin u2 has asked to update the note n1 of the user u1 under its
\* match with a body that sets the rating, got 404, and the note is as it
\* was created
C24_Witness ==
    /\ response.handler = "update_note"
    /\ response.code = 404
    /\ request.authorization = Bearer(Token("u2", "admin", FALSE, TRUE))
    /\ request.body = NoteBody(FALSE, "1", Null)
    /\ \E i \in 1..Len(notes) :
           /\ notes[i]._id = request.note_id
           /\ notes[i].match_id = request.match_id
           /\ notes[i].user_id = "u1"
           /\ notes[i].rating = "5"

=============================================================================
